---------------------------- MODULE Spec2Model ----------------------------
(***************************************************************************)
(* A model of autoMLSA's change detection, cache invalidation and          *)
(* checkpointing, translated from src/autoMLSA.py and src/util/*.py.       *)
(*                                                                         *)
(* The state is the run directory (the JSON registries and snapshots under *)
(* .autoMLSA/, the fasta/, queries/, blast/, unaligned/ and aligned/       *)
(* directories, the <runid>.nex* files, the checkpoint markers) together   *)
(* with the control position and local variables of the invocation that    *)
(* is running.                                                             *)
(*                                                                         *)
(* The specifications defined over this state:                             *)
(*   SpecLabels  get_labels called over and over on one labels.json;       *)
(*   Spec        invocations of main() of src/autoMLSA.py;                 *)
(*   SpecLib     the stage functions of src/autoMLSA.py and of             *)
(*               src/util/blast_parser.py called one at a time on one run  *)
(*               directory;                                                *)
(*   SpecPool    the search stage with its worker pool step by step;       *)
(*   SpecInval   the whole pipeline up to the tree, and                    *)
(*               remove_intermediates between two sessions;                *)
(*   SpecQueries get_queries called over and over on one run directory;    *)
(*   SpecPaths   invocations of main() with the genome files given by      *)
(*               their paths, validate_arguments first;                    *)
(*   SpecNamed   generate_blast_list with the file names written out;      *)
(*   SpecSummary print_blast_summary called on the table of a finished     *)
(*               search, and the import of src/util/blast_functions.py.    *)
(***************************************************************************)
EXTENDS Integers, Sequences, FiniteSets, TLC

(***************************************************************************)
(* Bounds of the model.                                                    *)
(***************************************************************************)
\* longest list of genome files handed to get_labels in SpecLabels
MaxFastas == 2
\* how many times main is invoked on one run directory
MaxRuns == 2
\* how many times the stage functions are gone through on one run directory
MaxSessions == 2

(***************************************************************************)
(* The finite universe the inputs are drawn from.                          *)
(***************************************************************************)
\* base names of genome files (os.path.basename of the input path), with
\* and without an extension
LabelBases == {"g1", "g2.fa", "g3"}
\* the genomes of the pipeline runs
Bases == {"g1", "g2.fa"}
\* sequence contents a genome file can have
Seqs == {"s1", "s2"}
\* record identifiers of query files, as strings of characters; rec.id of
\* SeqIO is the header up to the first blank
IdA == <<"q", "a">>
IdAbar == <<"q", "|", "a">>
IdB == <<"q", "b">>
RecIds == {IdA, IdAbar, IdB}
\* residue sequences of query records
QSeqs == {"x", "y"}

\* a file of the run directory: absent, or present with its content
NoFile == [exists |-> FALSE, data |-> <<>>]
File(d) == [exists |-> TRUE, data |-> d]

\* set(list) of Python
ToSet(s) == {s[i] : i \in 1..Len(s)}

\* all sequences over S of length at most n
SeqsUpTo(S, n) == UNION {[1..k -> S] : k \in 0..n}

\* list.index(x) of Python (0-based), for x in the list
Index(s, x) ==
    (CHOOSE i \in 1..Len(s) :
         s[i] = x /\ \A j \in 1..(i - 1) : s[j] # x) - 1

\* the keys of a dict made of the list x, list(dict.fromkeys(x)): the first
\* occurrence of each element, in order
RECURSIVE FromKeys(_)
FromKeys(x) ==
    IF x = <<>> THEN <<>>
    ELSE LET rest == FromKeys(SubSeq(x, 1, Len(x) - 1))
         IN IF x[Len(x)] \in ToSet(rest) THEN rest
            ELSE Append(rest, x[Len(x)])

\* s < t on strings, by the code points of their characters
RECURSIVE StrLess(_, _)
StrLess(s, t) ==
    LET ord(c) == CASE c = " " -> 32 [] c = "-" -> 45 [] c = "." -> 46
                    [] c = "_" -> 95 [] c = "a" -> 97 [] c = "b" -> 98
                    [] c = "q" -> 113 [] c = "|" -> 124
    IN IF t = <<>> THEN FALSE
       ELSE IF s = <<>> THEN TRUE
       ELSE IF Head(s) # Head(t) THEN ord(Head(s)) < ord(Head(t))
       ELSE StrLess(Tail(s), Tail(t))

VARIABLES
    pc,               \* control position of the running invocation, "idle" if none
    run,              \* arguments and local variables of the running invocation
    exitcode,         \* exit status of the last ended invocation, -1 if none
    labelsf,          \* .autoMLSA/labels.json
    rename_info,      \* .autoMLSA/rename.json
    fastadir,         \* fasta/<base>: the renamed copy of each genome
    expected_fastas,  \* .autoMLSA/expected_fastas.json
    querydir,         \* queries/<safeid>_<hash>.fas
    backupsdir,       \* .autoMLSA/backups/<query file>
    expected_queries, \* .autoMLSA/expected_queries.json
    blastdir,         \* blast/<query>_vs_<target>.tab
    blast_results,    \* .autoMLSA/blast_results.tsv
    expected_filt,    \* .autoMLSA/expected_filt.json
    tmpfiles,         \* the summary files print_blast_summary writes
    unaligned,        \* unaligned/
    aligned,          \* aligned/
    nexfiles,         \* <runid>.nex*
    checkpointdir,    \* whether .autoMLSA/checkpoint/ exists
    checkpoint,       \* the marker files under .autoMLSA/checkpoint/
    pool,             \* the worker pool of generate_blast_list
    configf,          \* config.json
    nruns,            \* history: how many invocations of main were started
    ret,              \* history: the last call and what it returned
    prev              \* history: the invocation of main before the running one

vars == <<pc, run, exitcode, labelsf, rename_info, fastadir, expected_fastas,
          querydir, backupsdir, expected_queries, blastdir, blast_results,
          expected_filt, tmpfiles, unaligned, aligned, nexfiles,
          checkpointdir, checkpoint, pool, configf, nruns, ret, prev>>

\* the run directory as one value: what the functions below read and write
Disk ==
    [labelsf |-> labelsf, rename_info |-> rename_info, fastadir |-> fastadir,
     expected_fastas |-> expected_fastas, querydir |-> querydir,
     backupsdir |-> backupsdir, expected_queries |-> expected_queries,
     blastdir |-> blastdir, blast_results |-> blast_results,
     expected_filt |-> expected_filt, tmpfiles |-> tmpfiles,
     unaligned |-> unaligned, aligned |-> aligned, nexfiles |-> nexfiles,
     checkpointdir |-> checkpointdir, checkpoint |-> checkpoint]

\* the run directory after a step
SetDisk(d) ==
    /\ labelsf' = d.labelsf
    /\ rename_info' = d.rename_info
    /\ fastadir' = d.fastadir
    /\ expected_fastas' = d.expected_fastas
    /\ querydir' = d.querydir
    /\ backupsdir' = d.backupsdir
    /\ expected_queries' = d.expected_queries
    /\ blastdir' = d.blastdir
    /\ blast_results' = d.blast_results
    /\ expected_filt' = d.expected_filt
    /\ tmpfiles' = d.tmpfiles
    /\ unaligned' = d.unaligned
    /\ aligned' = d.aligned
    /\ nexfiles' = d.nexfiles
    /\ checkpointdir' = d.checkpointdir
    /\ checkpoint' = d.checkpoint

\* the run directory at the start
DiskIs(d) ==
    /\ labelsf = d.labelsf
    /\ rename_info = d.rename_info
    /\ fastadir = d.fastadir
    /\ expected_fastas = d.expected_fastas
    /\ querydir = d.querydir
    /\ backupsdir = d.backupsdir
    /\ expected_queries = d.expected_queries
    /\ blastdir = d.blastdir
    /\ blast_results = d.blast_results
    /\ expected_filt = d.expected_filt
    /\ tmpfiles = d.tmpfiles
    /\ unaligned = d.unaligned
    /\ aligned = d.aligned
    /\ nexfiles = d.nexfiles
    /\ checkpointdir = d.checkpointdir
    /\ checkpoint = d.checkpoint

(***************************************************************************)
(* How a call ends: it returns a value, it ends the process through        *)
(* exit(code), or it raises an exception nothing catches, on which the     *)
(* interpreter prints the traceback and ends the process with status 1.    *)
(***************************************************************************)
Return(d, v) == [disk |-> d, status |-> "return", code |-> 0, value |-> v]
Exit(d, c) == [disk |-> d, status |-> "exit", code |-> c, value |-> <<>>]
Raise(d) == [disk |-> d, status |-> "raise", code |-> 1, value |-> <<>>]

(***************************************************************************)
(* get_labels (src/autoMLSA.py:578-601)                                    *)
(***************************************************************************)
\* lines 590-594: for base in bases: if base not in labels: labels.append(base)
RECURSIVE AppendMissing(_, _)
AppendMissing(labels, bases) ==
    IF bases = <<>> THEN labels
    ELSE AppendMissing(IF Head(bases) \in ToSet(labels) THEN labels
                       ELSE Append(labels, Head(bases)),
                       Tail(bases))

\* the list get_labels returns, given labels.json and the base names
get_labels_current(lf, bases) == bases

get_labels_list(lf, bases) ==
    IF lf.exists THEN AppendMissing(lf.data, bases) ELSE bases

\* get_labels: the list is written to labels.json and returned
get_labels(d, bases) ==
    LET labels == get_labels_list(d.labelsf, bases)
    IN Return([d EXCEPT !.labelsf = File(labels)], labels)

(***************************************************************************)
(* The expected-set comparison shared by convert_fasta, get_queries and    *)
(* print_blast_summary: updated = set(expected) != set(new), where a       *)
(* missing file reads as the empty list.                                   *)
(***************************************************************************)
ReadList(f) == IF f.exists THEN f.data ELSE <<>>

ListsDiffer(expected, new) == expected # new

SetsDiffer(expected, new) == ToSet(expected) # ToSet(new)

(***************************************************************************)
(* convert_fasta (src/autoMLSA.py:604-659)                                 *)
(* fastas: the base names of the genome files, in argument order;          *)
(* seqOf: the sequence content of the source file of each base name.       *)
(* The BLAST database files beside each copy are made when they are        *)
(* missing and follow the copy; they are not a separate part of the state. *)
(***************************************************************************)
\* lines 621-641, one genome file: its entry of rename_info and its renamed
\* copy; labels.index raises ValueError for a base name that has no label
ConvertOne(st, base, labels, seqOf) ==
    IF base \notin ToSet(labels) THEN [st EXCEPT !.status = "raise"]
    ELSE
      LET label == Index(labels, base)
          info == IF base \in DOMAIN st.rename_info THEN st.rename_info
                  ELSE (base :> [index |-> label]) @@ st.rename_info
      IN IF st.disk.fastadir[base].exists
         THEN [st EXCEPT !.rename_info = info]
         ELSE [st EXCEPT !.rename_info = info,
                         !.disk.fastadir[base] =
                             File([label |-> label, seq |-> seqOf[base]])]

RECURSIVE ConvertAll(_, _, _, _)
ConvertAll(st, fastas, labels, seqOf) ==
    IF fastas = <<>> \/ st.status # "return" THEN st
    ELSE ConvertAll(ConvertOne(st, Head(fastas), labels, seqOf),
                    Tail(fastas), labels, seqOf)

\* lines 642-659: rename.json is written, then expected_fastas.json is
\* compared and overwritten; fasta/<base> stands as <base> in the lists
convert_fasta_if_updated(d, fastas, labels, seqOf) ==
    LET st == ConvertAll([disk |-> d, rename_info |-> d.rename_info,
                          status |-> "return"], fastas, labels, seqOf)
        d1 == [st.disk EXCEPT !.rename_info = st.rename_info]
        updated == SetsDiffer(ReadList(d1.expected_fastas), fastas)
    IN IF st.status = "raise" THEN Raise(st.disk)
       ELSE Return(IF updated THEN [d1 EXCEPT !.expected_fastas = File(fastas)]
                   ELSE d1,
                   [new_fastas |-> fastas, updated |-> updated])

convert_fasta(d, fastas, labels, seqOf) ==
    LET st == ConvertAll([disk |-> d, rename_info |-> d.rename_info,
                          status |-> "return"], fastas, labels, seqOf)
        d1 == [st.disk EXCEPT !.rename_info = st.rename_info]
        new_fastas == fastas
        updated == SetsDiffer(ReadList(d1.expected_fastas), new_fastas)
    IN IF st.status = "raise" THEN Raise(st.disk)
       ELSE Return([d1 EXCEPT !.expected_fastas = File(new_fastas)],
                   [new_fastas |-> new_fastas, updated |-> updated])

(***************************************************************************)
(* sanitize_path (src/autoMLSA.py:218-224) on strings of characters:       *)
(* blanks become underscores, then only alphanumerics and . _ - are kept.  *)
(***************************************************************************)
\* str.isalnum() on the characters of the universe
IsAlnum(c) == c \in {"q", "a", "b"}

sanitize_path(s) ==
    LET t == [i \in DOMAIN s |-> IF s[i] = " " THEN "_" ELSE s[i]]
        Keep(c) == IsAlnum(c) \/ c \in {".", "_", "-"}
    IN SelectSeq(t, Keep)

(***************************************************************************)
(* generate_hash (src/autoMLSA.py:227-234): the blake2b digest of the      *)
(* sequence, one digest per sequence of the universe.                      *)
(***************************************************************************)
generate_hash(s) == CASE s = "x" -> "hx" [] s = "y" -> "hy"

(***************************************************************************)
(* get_queries (src/autoMLSA.py:662-802)                                   *)
(* queries: the query files in argument order, each                        *)
(*   [name, present (the path exists now), recs (its records, in order)];  *)
(* an extracted query queries/<safeid>_<hash>.fas is [id, hash].           *)
(***************************************************************************)
\* lines 697-782, the records of one query file; st carries seen, hashes,
\* new_queries and the run directory, and how the loop ended
RECURSIVE QueryRecs(_, _, _, _, _)
QueryRecs(st, recs, i, path, dups) ==
    IF recs = <<>> THEN st
    ELSE
      LET rec == Head(recs)
          safeid == sanitize_path(rec.id)
          seqhash == generate_hash(rec.seq)
      IN
      IF seqhash \in DOMAIN st.hashes /\ st.hashes[seqhash] = safeid
      THEN \* line 703: same header and sequence again, skipped
           QueryRecs(st, Tail(recs), i, path, dups)
      ELSE IF seqhash \in DOMAIN st.hashes
      THEN \* lines 704-731: same sequence under another id; line 724
           \* calls os.path.basname, which raises AttributeError
           IF path = st.seen[st.hashes[seqhash]].path
           THEN [st EXCEPT !.status = "exit", !.code = 65]
           ELSE [st EXCEPT !.status = "raise", !.code = 1]
      ELSE
        LET st1 == [st EXCEPT !.hashes = (seqhash :> safeid) @@ @]
        IN
        IF safeid \in DOMAIN st1.seen /\ ~dups
        THEN \* lines 737-761
             [st1 EXCEPT !.status = "exit", !.code = 65]
        ELSE
          LET fn == [id |-> safeid, hash |-> seqhash]
              st2 == [st1 EXCEPT
                        !.seen = (safeid :> [path |-> path, index |-> i,
                                             unsafeid |-> rec.id]) @@ @,
                        !.new_queries = Append(@, fn),
                        !.disk.querydir = @ \cup {fn}]
          IN QueryRecs(st2, Tail(recs), i + 1, path, dups)

\* os.path.basename of a query path (line 679): the backup of a query file
\* is kept under its base name
QueryBase(name) == IF name = "e/f1" THEN "f1" ELSE name

\* lines 678-784, the query files
RECURSIVE QueryFiles(_, _, _)
QueryFiles(st, queries, dups) ==
    IF queries = <<>> THEN st
    ELSE
      LET f == Head(queries)
          base == QueryBase(f.name)
          backed == base \in DOMAIN st.disk.backupsdir
      IN
      IF ~f.present /\ ~backed
      THEN \* lines 687-695
           [st EXCEPT !.status = "exit", !.code = 66]
      ELSE
        LET path == [name |-> IF f.present THEN f.name ELSE base,
                     backup |-> ~f.present]
            recs == IF f.present THEN f.recs
                    ELSE st.disk.backupsdir[base]
            st1 == QueryRecs(st, recs, 1, path, dups)
        IN
        IF st1.status # "return" THEN st1
        ELSE QueryFiles(
               IF f.present
               THEN [st1 EXCEPT !.disk.backupsdir = (base :> f.recs) @@ @]
               ELSE st1,
               Tail(queries), dups)

get_queries(d, dups, queries) ==
    LET st0 == [disk |-> d, seen |-> <<>>, hashes |-> <<>>,
                new_queries |-> <<>>, status |-> "return", code |-> 0]
        st == QueryFiles(st0, queries, dups)
        updated == SetsDiffer(ReadList(st.disk.expected_queries),
                              st.new_queries)
    IN IF st.status = "exit" THEN Exit(st.disk, st.code)
       ELSE IF st.status = "raise" THEN Raise(st.disk)
       ELSE Return([st.disk EXCEPT !.expected_queries = File(st.new_queries)],
                   [new_queries |-> st.new_queries, updated |-> updated])

(***************************************************************************)
(* The search program, as a function of its input files: the rows of the  *)
(* output table of one query against the database of one renamed genome.  *)
(* A row carries qseqid (the header of the query file, its safe id),       *)
(* sseqid (the label written into the renamed genome) and whether it       *)
(* meets the identity and coverage thresholds of read_blast_results.       *)
(***************************************************************************)
MeetsThresholds(qhash, gseq) == ~(qhash = "hy" /\ gseq = "s2")

BlastRows(query, copy) ==
    {[qseqid |-> query.id, sseqid |-> copy.label, of |-> query.hash,
      pass |-> MeetsThresholds(query.hash, copy.seq)]}

\* the output file of a finished search, and of a failed one (size 0)
BlastDone(query, copy) ==
    File([empty |-> FALSE, db |-> copy.seq, rows |-> BlastRows(query, copy)])
BlastFailed == File([empty |-> TRUE, db |-> "none", rows |-> {}])

(***************************************************************************)
(* generate_blast_list (src/autoMLSA.py:805-858)                           *)
(* queries: the extracted queries; targets: the renamed genomes;           *)
(* pb: --printblast; failed: the jobs of the pool whose search fails.      *)
(***************************************************************************)
\* lines 826-828: blast/<query_base>_vs_<target_base>.tab
outname(query, target) == <<query, target>>

\* lines 823-830: one output path per target and query, targets outermost
RECURSIVE BlastOutOf(_, _)
BlastOutOf(queries, targets) ==
    IF targets = <<>> THEN <<>>
    ELSE [i \in 1..Len(queries) |-> outname(queries[i], Head(targets))]
         \o BlastOutOf(queries, Tail(targets))

\* lines 834-839: a command for each output that is absent or of size 0
NeedsSearchAlways(d, out) == TRUE

NeedsSearch(d, out) ==
    ~d.blastdir[out].exists \/ d.blastdir[out].data.empty

BlastCmdsAll(d, blastout) == blastout

BlastCmds(d, blastout) == SelectSeq(blastout, LAMBDA o : NeedsSearch(d, o))

\* lines 853-855: p.map(run_blast_search, cmds) returns when every job ended.
\* The caller is blocked for the whole of it and every job writes a file of
\* its own, so the directory the call leaves does not depend on the order
\* the jobs end in; the steps of the pool are the Pool_ actions below.
RECURSIVE RunPool(_, _, _)
RunPool(d, cmds, failed) ==
    IF cmds = <<>> THEN d
    ELSE LET o == Head(cmds)
             out == IF o \in failed \/ ~d.fastadir[o[2]].exists
                    THEN BlastFailed
                    ELSE BlastDone(o[1], d.fastadir[o[2]].data)
         IN RunPool([d EXCEPT !.blastdir[o] = out], Tail(cmds), failed)

generate_blast_list(d, queries, targets, pb, failed) ==
    LET blastout == BlastOutOf(queries, targets)
        cmds == BlastCmds(d, blastout)
    IN IF cmds # <<>> /\ pb THEN Exit(d, 0)
       ELSE Return(RunPool(d, cmds, failed),
                   [blastout |-> blastout, cmds |-> ToSet(cmds)])

(***************************************************************************)
(* checkpoint_tracker (src/util/helper_functions.py:111-114)               *)
(* open() of a marker raises FileNotFoundError when .autoMLSA/checkpoint   *)
(* does not exist.                                                         *)
(***************************************************************************)
checkpoint_toggle(d, fn_name) ==
    IF ~d.checkpointdir THEN Raise(d)
    ELSE IF fn_name \in d.checkpoint
    THEN Return([d EXCEPT !.checkpoint = @ \ {fn_name}], <<>>)
    ELSE Return([d EXCEPT !.checkpoint = @ \cup {fn_name}], <<>>)

checkpoint_tracker(d, fn_name) ==
    IF fn_name \in d.checkpoint THEN Return(d, <<>>)
    ELSE IF ~d.checkpointdir THEN Raise(d)
    ELSE Return([d EXCEPT !.checkpoint = @ \cup {fn_name}], <<>>)

(***************************************************************************)
(* read_blast_results (src/util/blast_parser.py:21-55)                     *)
(***************************************************************************)
\* lines 46-52: the rows of the files that meet the thresholds; read_csv
\* raises on a file that is absent, and with names given it reads a file of
\* size 0 as a table without rows
Readable(d, blastfiles) ==
    \A o \in ToSet(blastfiles) : d.blastdir[o].exists

OutputRows(d, blastfiles) ==
    UNION {d.blastdir[o].data.rows : o \in ToSet(blastfiles)}

FilteredRows(d, blastfiles) == {r \in OutputRows(d, blastfiles) : r.pass}

\* lines 32-33: the columns qseqid and sseqid are read as categories.  A
\* table is its rows and the categories of these two columns; a column of
\* plain strings has none
Table(rows, qseqid, sseqid) ==
    [rows |-> rows, qseqid |-> qseqid, sseqid |-> sseqid]

NoTable == Table({}, {}, {})

\* line 44: the categories of a column of .autoMLSA/blast_results.tsv are
\* the values of the rows of the file
CachedTable(rows) ==
    Table(rows, {r.qseqid : r \in rows}, {r.sseqid : r \in rows})

\* lines 46-50: the column of each search output is a category of the values
\* of that output, one id and one genome, and append keeps a column a
\* category only as long as the tables with rows appended have the same
\* categories: outputs of more than one value make a column of plain strings
AppendedCategories(values) == IF Cardinality(values) = 1 THEN values ELSE {}

\* lines 46-52: the selection of the rows by the thresholds leaves the
\* categories as they are, those of the rows it drops among them
AppendedTable(rows) ==
    Table({r \in rows : r.pass},
          AppendedCategories({r.qseqid : r \in rows}),
          AppendedCategories({r.sseqid : r \in rows}))

read_blast_results(d, blastfiles) ==
    IF d.blast_results.exists
    THEN LET c == checkpoint_tracker(d, "read_blast_results")
         IN IF c.status = "return"
            THEN Return(c.disk, CachedTable(d.blast_results.data))
            ELSE c
    ELSE IF ~Readable(d, blastfiles) THEN Raise(d)
    ELSE LET results == AppendedTable(OutputRows(d, blastfiles))
             d1 == [d EXCEPT !.blast_results = File(results.rows)]
             c == checkpoint_tracker(d1, "read_blast_results")
         IN IF c.status = "return" THEN Return(c.disk, results) ELSE c

(***************************************************************************)
(* src/util/blast_functions.py: line 11 is "from mutltiprocessing import   *)
(* Pool", and there is no module of that name.  The import of the file     *)
(* raises ModuleNotFoundError at that line, before any of its functions is *)
(* defined: none of them (generate_blast_list, print_blast_summary, ...)   *)
(* can be entered, and a caller that imports the file ends there.          *)
(***************************************************************************)
import_blast_functions(d) == Raise(d)

(***************************************************************************)
(* The worker pool of generate_blast_list: Pool(threads) starts threads     *)
(* worker processes, each of which takes one task at a time off the shared  *)
(* task queue and runs its commands one after the other.                    *)
(* src/autoMLSA.py:853-855 hands the commands over with p.map, which cuts   *)
(* the list into chunks of ceil(len / (4 * threads)) commands and comes     *)
(* back when the result of every task is in.                                *)
(***************************************************************************)
\* workers: for each worker process the commands of its task still to run,
\* the first of them running; started, done, failed: the commands started,
\* ended, and ended with a non-zero status; blast0, marks: the search
\* outputs and the markers when the pool was started; ooo: whether a command
\* has ended before one listed before it
NoPool == [open |-> FALSE, hist |-> FALSE, k |-> 0, cmds |-> <<>>,
           queue |-> <<>>, workers |-> <<>>, started |-> {}, done |-> {},
           failed |-> {}, blast0 |-> <<>>, marks |-> {}, ooo |-> FALSE]

\* Pool.map: chunksize, extra = divmod(len(iterable), len(pool) * 4)
MapChunkSize(n, k) ==
    IF n % (4 * k) # 0 THEN n \div (4 * k) + 1 ELSE n \div (4 * k)

RECURSIVE Chunks(_, _)
Chunks(cmds, size) ==
    IF Len(cmds) <= size THEN IF cmds = <<>> THEN <<>> ELSE <<cmds>>
    ELSE <<SubSeq(cmds, 1, size)>> \o Chunks(SubSeq(cmds, size + 1, Len(cmds)),
                                             size)

\* the pool as Pool(threads) and map leave it
PoolOpen(d, cmds, threads, hist) ==
    [open |-> TRUE, hist |-> hist, k |-> threads, cmds |-> cmds,
     queue |-> Chunks(cmds, MapChunkSize(Len(cmds), threads)),
     workers |-> [w \in 1..threads |-> <<>>],
     started |-> {}, done |-> {}, failed |-> {},
     blast0 |-> d.blastdir, marks |-> d.checkpoint, ooo |-> FALSE]

PoolBusyNever(p, w) == FALSE

\* a worker process that runs a task does not take another one
PoolBusy(p, w) == p.workers[w] # <<>>

\* a worker takes the next task of the queue and starts its first command
PoolTake(p, w) ==
    [p EXCEPT !.workers[w] = Head(p.queue), !.queue = Tail(@),
              !.started = @ \cup {Head(Head(p.queue))}]

PoolAfterAbort(p, w, fail) ==
    LET o == Head(p.workers[w])
    IN [p EXCEPT !.workers[w] = <<>>,
                 !.queue = IF fail THEN <<>> ELSE @,
                 !.done = @ \cup {o},
                 !.failed = IF fail THEN @ \cup {o} ELSE @]

\* the command a worker runs ends, with a zero status or not; subprocess.run
\* hands back the status without raising, and the worker goes on with its
\* task
PoolAfter(p, w, fail) ==
    LET o == Head(p.workers[w])
        rest == Tail(p.workers[w])
    IN [p EXCEPT !.workers[w] = rest,
                 !.started = IF rest = <<>> THEN @ ELSE @ \cup {Head(rest)},
                 !.done = @ \cup {o},
                 !.failed = IF fail THEN @ \cup {o} ELSE @,
                 !.ooo = @ \/ \E i \in 1..Len(p.cmds) :
                             /\ p.cmds[i] \notin p.done
                             /\ i < Index(p.cmds, o) + 1]

PoolAllStarted(p) == p.queue = <<>>

\* map ends when the result of every task is in
PoolAllDone(p) ==
    /\ p.queue = <<>>
    /\ \A w \in 1..p.k : p.workers[w] = <<>>

(***************************************************************************)
(* remove_intermediates (src/util/helper_functions.py:18-31)               *)
(* intermediates: a set of tags; the files runid.nex* go in every case.    *)
(***************************************************************************)
genome_tmpfiles == {"keepsidx.json", "single_copy.json", "blast_filtered.tsv"}

PathExistsAlways(f) == TRUE

\* lines 24 and 28: os.path.exists, asked before each rmtree and os.remove
PathExists(f) == f.exists

\* how the call ends: shutil.rmtree and os.remove raise on a path that is
\* not there; the names glob.iglob yields are there
remove_intermediates_status(d, intermediates) ==
    LET Fails(f) == PathExists(f) /\ ~f.exists
    IN IF /\ "genome" \in intermediates
          /\ \/ Fails(d.unaligned) \/ Fails(d.aligned)
             \/ Fails(d.blast_results) \/ Fails(d.expected_filt)
             \/ \E n \in genome_tmpfiles :
                    Fails([exists |-> n \in d.tmpfiles, data |-> n])
       THEN "raise" ELSE "return"

remove_intermediates_all(d, intermediates) ==
    [d EXCEPT !.unaligned = NoFile, !.aligned = NoFile,
              !.blast_results = NoFile, !.tmpfiles = @ \ genome_tmpfiles,
              !.expected_filt = NoFile, !.nexfiles = {}]

remove_intermediates_blast(d, intermediates) ==
    [d EXCEPT !.blastdir = [o \in DOMAIN @ |-> NoFile], !.nexfiles = {}]

remove_intermediates(d, intermediates) ==
    LET d1 == IF "genome" \in intermediates
              THEN [d EXCEPT !.unaligned = NoFile, !.aligned = NoFile,
                             !.blast_results = NoFile,
                             !.tmpfiles = @ \ genome_tmpfiles,
                             !.expected_filt = NoFile]
              ELSE d
    IN [d1 EXCEPT !.nexfiles = {}]

(***************************************************************************)
(* print_blast_summary (src/util/blast_parser.py:58-178)                   *)
(* blastout: the table read_blast_results returned; labels: the list of    *)
(* get_labels; nallowed: --allow_missing; missing_check, checkpoint: flags *)
(***************************************************************************)
RECURSIVE SortSet(_)
SortSet(S) ==
    IF S = {} THEN <<>>
    ELSE LET m == CHOOSE x \in S : \A y \in S : x <= y
         IN <<m>> \o SortSet(S \ {m})

\* line 74: the keys of groupby of a column are its categories, and the
\* values of its rows when it is a column of plain strings
GroupKeys(blastout) ==
    [qseqid |-> blastout.qseqid \cup {r.qseqid : r \in blastout.rows},
     sseqid |-> blastout.sseqid \cup {r.sseqid : r \in blastout.rows}]

\* lines 74-77: grouped.size() has a count for every pair of a key of sseqid
\* and a key of qseqid, 0 for a pair without a row, and unstack makes of
\* them the rows (genomes, by label) and columns (queries) of the presence
\* matrix; without a key of one of the two there is no pair and the matrix
\* is empty
MatrixIndex(blastout) ==
    IF GroupKeys(blastout).qseqid = {} THEN <<>>
    ELSE SortSet(GroupKeys(blastout).sseqid)

MatrixColumns(blastout) ==
    IF GroupKeys(blastout).sseqid = {} THEN {}
    ELSE GroupKeys(blastout).qseqid

\* lines 100-103: the queries a genome has no hit for
ZeroCounts(blastout, g) ==
    {q \in MatrixColumns(blastout) :
        ~\E r \in blastout.rows : r.sseqid = g /\ r.qseqid = q}

\* lines 77 and 100-103: the rows of the matrix get the names of their
\* labels, and zero_counts_genome.to_dict() has one key for each name, in
\* the order of the first row of the name, with the value of its last row
ZeroCountsDict(blastout, labels) ==
    LET idx == MatrixIndex(blastout)
        names == [i \in 1..Len(idx) |-> labels[idx[i] + 1]]
        keys == FromKeys(names)
        last(k) == CHOOSE i \in 1..Len(idx) :
                       /\ names[i] = k
                       /\ \A j \in 1..Len(idx) : names[j] = k => j <= i
    IN [i \in 1..Len(keys) |->
           [k |-> keys[i], v |-> ZeroCounts(blastout, idx[last(keys[i])])]]

\* lines 104-127: the names missing nothing, in the order of the dict, then
\* those missing no more than nallowed queries
KeepsComplete(blastout, labels, nallowed) ==
    LET items == SelectSeq(ZeroCountsDict(blastout, labels),
                           LAMBDA e : e.v = {})
    IN [i \in 1..Len(items) |-> items[i].k]

Keeps(blastout, labels, nallowed) ==
    LET dict == ZeroCountsDict(blastout, labels)
        items == SelectSeq(dict, LAMBDA e : e.v = {})
                 \o SelectSeq(dict, LAMBDA e : /\ e.v # {}
                                               /\ Cardinality(e.v) <= nallowed)
    IN [i \in 1..Len(items) |-> items[i].k]

\* line 72: genome_map takes a name to the last position it has in labels
genome_map(labels, x) ==
    (CHOOSE i \in 1..Len(labels) :
         labels[i] = x /\ \A j \in (i + 1)..Len(labels) : labels[j] # x) - 1

\* lines 131-133, sort_values(['bitscore', 'qcovhsp'], ascending=False)
\* followed by drop_duplicates(['qseqid', 'sseqid']): of the rows of one
\* query id and one genome the one with the highest score stays.  A row
\* does not carry its scores here, so which row that is, is drawn: the
\* tables with one row for each pair of query id and genome of the table
BestRows(blastout) ==
    {best \in SUBSET blastout.rows :
        \A r \in blastout.rows :
            Cardinality({b \in best : /\ b.qseqid = r.qseqid
                                      /\ b.sseqid = r.sseqid}) = 1}

\* lines 130-134: the best rows of the kept genomes; the columns keep
\* their categories
BlastoutKeeps(blastout, labels, nallowed, best) ==
    LET keeps == Keeps(blastout, labels, nallowed)
        keepsidx == {genome_map(labels, keeps[i]) : i \in 1..Len(keeps)}
    IN Table({r \in best : r.sseqid \in keepsidx},
             blastout.qseqid, blastout.sseqid)

summary_files ==
    genome_tmpfiles \cup {"presence_matrix.tsv", "missing_counts.json",
                          "blast_summary.json", "missing_by_genome.json"}

print_blast_summary(d, blastout, labels, nallowed, missing_check, ckpt, best) ==
    IF \E i \in ToSet(MatrixIndex(blastout)) : i + 1 > Len(labels)
    THEN Raise(d)
    ELSE
      LET keeps == Keeps(blastout, labels, nallowed)
          blastout_keeps == BlastoutKeeps(blastout, labels, nallowed, best)
          d1 == [d EXCEPT !.tmpfiles = @ \cup summary_files]
          count == Len(MatrixIndex(blastout))
          updated == SetsDiffer(ReadList(d1.expected_filt), keeps)
          d2 == IF updated THEN remove_intermediates(d1, {"genome"}) ELSE d1
          d3 == [d2 EXCEPT !.expected_filt = File(keeps)]
          c == checkpoint_tracker(d3, "print_blast_summary")
      IN IF Len(keeps) < count /\ ~missing_check THEN Exit(d1, 1)
         ELSE IF ckpt THEN Exit(d3, 1)
         ELSE IF c.status = "return" THEN Return(c.disk, blastout_keeps)
         ELSE c

(***************************************************************************)
(* print_fasta_files (src/util/blast_parser.py:181-208)                    *)
(* One file per query in unaligned/, written only when it is not there;    *)
(* its records are the names of the genomes with a row for the query.      *)
(* blastout: the table print_blast_summary returned.                       *)
(***************************************************************************)
\* os.path.splitext(x): x is cut before its last dot, when the dot stands
\* after the last "/" and after a character of the file name that is no dot
splitext(x) ==
    LET ch(i) == SubSeq(x, i, i)
        seps == {i \in 1..Len(x) : ch(i) = "/"}
        first == IF seps = {} THEN 1
                 ELSE 1 + CHOOSE i \in seps : \A j \in seps : j <= i
        dots == {i \in first..Len(x) : ch(i) = "."}
        dot == CHOOSE i \in dots : \A j \in dots : j <= i
    IN IF dots # {} /\ \E i \in first..(dot - 1) : ch(i) # "."
       THEN <<SubSeq(x, 1, dot - 1), SubSeq(x, dot, Len(x))>>
       ELSE <<x, "">>

\* lines 183 and 199-200: a record is named by the label of its row
\* without its extension
UnalignedOf(blastout, labels, q) ==
    {splitext(labels[r.sseqid + 1])[1] :
        r \in {x \in blastout : x.qseqid = q}}

\* line 189: groupby('qseqid') yields a group for each id of a row and for
\* each category of the column, a category without a row with an empty
\* group, whose file is written without a record and is in the list
\* returned.
\* The queries are gone through in the order of their names; the file of a
\* query that is there is left alone, its rows not looked at.  A row whose
\* sseqid is no position of labels raises IndexError when it is reached:
\* the files of the queries before are written, and the file of its query
\* holds the records of the rows before it.  early: the rows of the table
\* that stand before every such row of their query.
print_fasta_files(d, blastout, labels, early) ==
    LET old == d.unaligned.data
        names == GroupKeys(blastout).qseqid
        Fits(r) == r.sseqid + 1 <= Len(labels)
        stops == {q \in names \ DOMAIN old :
                     \E r \in blastout.rows : r.qseqid = q /\ ~Fits(r)}
    IN IF stops = {}
       THEN LET new == [q \in names \cup DOMAIN old |->
                          IF q \in DOMAIN old THEN old[q]
                          ELSE UnalignedOf(blastout.rows, labels, q)]
                d1 == [d EXCEPT !.unaligned = File(new)]
                c == checkpoint_tracker(d1, "print_fasta_files")
            IN IF c.status = "return" THEN Return(c.disk, names) ELSE c
       ELSE LET qf == CHOOSE q \in stops :
                          \A p \in stops : p = q \/ StrLess(q, p)
                new == [q \in {n \in names : n = qf \/ StrLess(n, qf)}
                              \cup DOMAIN old |->
                          IF q \in DOMAIN old THEN old[q]
                          ELSE IF q = qf
                          THEN UnalignedOf({x \in early \cap blastout.rows :
                                               Fits(x)}, labels, q)
                          ELSE UnalignedOf(blastout.rows, labels, q)]
            IN Raise([d EXCEPT !.unaligned = File(new)])

(***************************************************************************)
(* run_mafft (src/autoMLSA.py:865-894)                                     *)
(* unaligned: the names print_fasta_files returned; updated: the flag of   *)
(* the caller; failed: the alignments whose command fails.  The output is  *)
(* opened for writing before the command starts, so a failed alignment     *)
(* leaves an empty file.                                                   *)
(***************************************************************************)
NoDir == <<>>

Align(d, q, fail) ==
    IF fail \/ ~d.unaligned.exists \/ q \notin DOMAIN d.unaligned.data
    THEN [empty |-> TRUE, seqs |-> {}]
    ELSE [empty |-> FALSE, seqs |-> d.unaligned.data[q]]

run_mafft(d, unalignedfiles, updated, failed) ==
    LET old == IF d.aligned.exists THEN d.aligned.data ELSE NoDir
        new == [q \in unalignedfiles \cup DOMAIN old |->
                  IF q \in unalignedfiles /\ (q \notin DOMAIN old \/ updated)
                  THEN Align(d, q, q \in failed)
                  ELSE old[q]]
    IN Return([d EXCEPT !.aligned = File(new)], unalignedfiles)

(***************************************************************************)
(* generate_nexus (src/autoMLSA.py:897-934): <runid>.nex, the list of the  *)
(* partitions, written when it is absent or the caller says updated        *)
(***************************************************************************)
NexNamed(d, name) == {f \in d.nexfiles : f.name = name}

WriteNex(d, name, data) ==
    [d EXCEPT !.nexfiles = (@ \ NexNamed(d, name))
                           \cup {[name |-> name, data |-> data]}]

generate_nexus(d, alignedfiles, updated) ==
    IF NexNamed(d, "nex") # {} /\ ~updated THEN Return(d, "nex")
    ELSE Return(WriteNex(d, "nex", alignedfiles), "nex")

(***************************************************************************)
(* run_iqtree (src/autoMLSA.py:937-968): the tree program writes           *)
(* <runid>.nex.log and, when it succeeds, <runid>.nex.treefile; a run      *)
(* without the tree file afterwards ends with status 73                    *)
(***************************************************************************)
run_iqtree(d, nexus, updated, fail) ==
    IF NexNamed(d, "nex.treefile") # {} /\ ~updated
    THEN Return(d, "nex.treefile")
    ELSE LET part == IF NexNamed(d, nexus) = {} THEN {}
                     ELSE (CHOOSE f \in NexNamed(d, nexus) : TRUE).data
             d1 == WriteNex(d, "nex.log", part)
             d2 == IF fail \/ NexNamed(d, nexus) = {} THEN d1
                   ELSE WriteNex(d1, "nex.treefile", part)
         IN IF NexNamed(d2, "nex.treefile") = {} THEN Exit(d2, 73)
            ELSE Return(d2, "nex.treefile")

\* exit_successfully (src/autoMLSA.py:971-979)
exit_successfully(d) == Exit(d, 0)

(***************************************************************************)
(* The empty run directory, as config_rundir leaves it:                    *)
(* src/util/parse_args.py:23-26 makes .autoMLSA/checkpoint,                *)
(* src/autoMLSA.py:364-365 does not.                                       *)
(***************************************************************************)
SafeIds == {sanitize_path(r) : r \in RecIds}
Hashes == {generate_hash(q) : q \in QSeqs}
Queries == [id : SafeIds, hash : Hashes]
OutNames == Queries \X Bases

EmptyDisk(cpdir) ==
    [labelsf |-> NoFile, rename_info |-> <<>>,
     fastadir |-> [b \in Bases |-> NoFile],
     expected_fastas |-> NoFile, querydir |-> {}, backupsdir |-> <<>>,
     expected_queries |-> NoFile,
     blastdir |-> [o \in OutNames |-> NoFile],
     blast_results |-> NoFile, expected_filt |-> NoFile, tmpfiles |-> {},
     unaligned |-> NoFile, aligned |-> NoFile, nexfiles |-> {},
     checkpointdir |-> cpdir, checkpoint |-> {}]

(***************************************************************************)
(* main (src/autoMLSA.py:982-1033), one action per call it makes.          *)
(* The arguments of an invocation are what validate_arguments hands on:    *)
(* the genome files and query files named on the command line, in          *)
(* config.json and found in the --dir directories, with their contents     *)
(* at that time.                                                           *)
(***************************************************************************)
RA == [id |-> IdA, seq |-> "x"]
RB == [id |-> IdB, seq |-> "y"]
QFile(name, recs) == [name |-> name, present |-> TRUE, recs |-> recs]
QGone(name) == [name |-> name, present |-> FALSE, recs |-> <<>>]

\* the argument lists the invocations of Spec are given
FastaArgs == {<<"g1">>, <<"g1", "g2.fa">>}
SeqArgs == {[b \in Bases |-> IF b = "g1" THEN q ELSE "s1"] : q \in Seqs}
QueryArgs == {<<QFile("f1", <<RA>>)>>, <<QFile("f1", <<RA, RB>>)>>,
              <<QGone("f1")>>}

NoArgs == [paths |-> <<>>, fasta |-> <<>>, seqOf |-> [b \in Bases |-> "s1"], query |-> <<>>,
           dups |-> FALSE, pb |-> FALSE, nallowed |-> 0,
           missing_check |-> FALSE, checkpoint |-> FALSE]

\* write_config (src/autoMLSA.py:558-572): the validated arguments, the
\* genome files and query files by their paths, go to config.json
write_config(args) ==
    File([fasta |-> args.fasta, paths |-> args.paths,
          query |-> [i \in DOMAIN args.query |-> args.query[i].name]])

\* the local variables of main before its first assignment
NoLocals == [labels |-> <<>>, newfastas |-> <<>>, updated_genome |-> FALSE,
             queries |-> <<>>, updated_query |-> FALSE, blastout |-> <<>>,
             cmds |-> {}, blastres |-> NoTable, blastkeeps |-> NoTable,
             unaligned |-> {}, aligned |-> {}, nexus |-> "none",
             treefile |-> "none"]

\* what is remembered of the invocation before the running one: whether
\* its arguments were the same, whether its pool ran and left every output
\* non-empty, what it detected, and the snapshots and search outputs it left
NoPrev == [exists |-> FALSE, same |-> FALSE, allok |-> FALSE,
           updated_genome |-> FALSE, updated_query |-> FALSE,
           expected_fastas |-> NoFile, expected_queries |-> NoFile,
           expected_filt |-> NoFile, blastdir |-> [o \in OutNames |-> NoFile]]

\* every output of the list is present and non-empty
AllSearched(d, blastout) ==
    \A o \in ToSet(blastout) : ~NeedsSearch(d, o)

\* the last call: which function, how it ended, what it returned, and the
\* file it compared against and the markers as they were before the call
NoRet == [op |-> "none", status |-> "return", value |-> <<>>,
          before |-> NoFile, marks |-> {}]

\* how a call of main ends the step: main goes on, or the process ends
Goes(r, next, op, before) ==
    /\ SetDisk(r.disk)
    /\ ret' = [op |-> op, status |-> r.status, value |-> r.value,
               before |-> before, marks |-> checkpoint]
    /\ pool' = pool
    /\ configf' = configf
    /\ IF r.status = "return"
       THEN pc' = next /\ exitcode' = exitcode
       ELSE pc' = "idle" /\ exitcode' = r.code

(***************************************************************************)
(* generate_blast_list step by step (src/autoMLSA.py:805-858): the call    *)
(* starts the pool and is blocked while the worker processes take the      *)
(* tasks and run the commands in any interleaving, each output appearing   *)
(* in blast/ when its search ends; then the call returns to its caller,    *)
(* which goes on with read_blast_results.  threads is the --threads        *)
(* argument.                                                               *)
(***************************************************************************)
MaxWorkers == 2

\* threads of the sessions of SpecLib: one worker process, which is what
\* --threads is without the option and without a value in config.json
\* (src/autoMLSA.py:449-453); the other specifications draw it
DefaultThreads == {1}

\* a session of the stage functions that is not running
NoRun == [args |-> NoArgs, locals |-> NoLocals]

\* lines 813-850, up to the start of the pool; without a search to run the
\* call returns at once, and with searches to run and pb it ends the process.
\* PB: the values of pb of the call; TH: those of threads; hist: whether the
\* pool is remembered once it is closed; session: whether the caller is a
\* session of the stage functions, of which nothing is remembered once it
\* is cut short
PoolStart(PB, TH, hist, session) ==
    /\ pc = "generate_blast_list"
    /\ \E pb \in PB :
         LET blastout == BlastOutOf(run.locals.queries, run.locals.newfastas)
             cmds == BlastCmds(Disk, blastout)
             locals == [run EXCEPT !.locals.blastout = blastout,
                                   !.locals.cmds = ToSet(cmds)]
         IN IF cmds = <<>> \/ pb
            THEN LET r == generate_blast_list(Disk, run.locals.queries,
                                              run.locals.newfastas, pb, {})
                 IN /\ Goes(r, "read_blast_results", "generate_blast_list",
                            [pb |-> pb, blastdir |-> blastdir])
                    /\ run' = IF r.status = "return" THEN locals
                              ELSE IF session THEN NoRun ELSE run
            ELSE \E threads \in TH :
                   /\ pool' = PoolOpen(Disk, cmds, threads, hist)
                   /\ pc' = "pool"
                   /\ run' = locals
                   /\ ret' = NoRet
                   /\ SetDisk(Disk)
                   /\ UNCHANGED <<exitcode, configf>>
    /\ UNCHANGED <<prev, nruns>>

\* a worker process without a task takes the next one off the queue
Pool_take ==
    /\ pc = "pool"
    /\ pool.queue # <<>>
    /\ \E w \in 1..pool.k :
         /\ ~PoolBusy(pool, w)
         /\ pool' = PoolTake(pool, w)
    /\ SetDisk(Disk)
    /\ UNCHANGED <<pc, run, exitcode, nruns, ret, prev, configf>>

\* the search a worker process runs ends and leaves its output, or fails
Pool_finish ==
    /\ pc = "pool"
    /\ \E w \in 1..pool.k, fail \in BOOLEAN :
         /\ pool.workers[w] # <<>>
         /\ LET o == Head(pool.workers[w])
                out == IF fail \/ ~fastadir[o[2]].exists THEN BlastFailed
                       ELSE BlastDone(o[1], fastadir[o[2]].data)
            IN /\ pool' = PoolAfter(pool, w, fail)
               /\ SetDisk([Disk EXCEPT !.blastdir[o] = out])
    /\ UNCHANGED <<pc, run, exitcode, nruns, ret, prev, configf>>

\* lines 855-858: the results are in, the pool is closed, and the list of
\* outputs is returned
PoolReturn(d, p, locals) ==
    Return(d, [blastout |-> locals.blastout, cmds |-> locals.cmds])

Pool_return ==
    /\ pc = "pool"
    /\ PoolAllDone(pool)
    /\ LET r == PoolReturn(Disk, pool, run.locals)
       IN /\ SetDisk(r.disk)
          /\ ret' = [op |-> "generate_blast_list", status |-> r.status,
                     value |-> r.value,
                     before |-> [pb |-> FALSE, blastdir |-> pool.blast0],
                     marks |-> checkpoint]
    /\ pc' = "read_blast_results"
    /\ pool' = IF pool.hist THEN [pool EXCEPT !.open = FALSE] ELSE NoPool
    /\ UNCHANGED <<run, exitcode, nruns, prev, configf>>

Main_start ==
    /\ pc = "idle"
    /\ nruns < MaxRuns
    /\ nruns' = nruns + 1
    /\ \E fa \in FastaArgs, sq \in SeqArgs, qa \in QueryArgs, pb \in BOOLEAN :
         LET args == [NoArgs EXCEPT !.fasta = fa, !.seqOf = sq,
                                    !.query = qa, !.pb = pb]
         IN /\ run' = [args |-> args, locals |-> NoLocals]
            /\ configf' = write_config(args)
            /\ prev' = [exists |-> exitcode # -1,
                        same |-> exitcode # -1 /\ run.args = args,
                        allok |-> /\ run.locals.blastout # <<>>
                                  /\ AllSearched(Disk, run.locals.blastout),
                        updated_genome |-> run.locals.updated_genome,
                        updated_query |-> run.locals.updated_query,
                        expected_fastas |-> expected_fastas,
                        expected_queries |-> expected_queries,
                        expected_filt |-> expected_filt,
                        blastdir |-> blastdir]
    /\ pc' = "get_labels"
    /\ exitcode' = exitcode
    /\ ret' = NoRet
    /\ pool' = pool
    /\ SetDisk(Disk)

\* line 1003
Main_get_labels ==
    /\ pc = "get_labels"
    /\ LET r == get_labels(Disk, run.args.fasta)
       IN /\ Goes(r, "convert_fasta", "get_labels", labelsf)
          /\ run' = [run EXCEPT !.locals.labels = r.value]
    /\ UNCHANGED <<prev, nruns>>

\* lines 1004-1006
Main_convert_fasta ==
    /\ pc = "convert_fasta"
    /\ LET r == convert_fasta(Disk, run.args.fasta, run.locals.labels,
                              run.args.seqOf)
       IN /\ Goes(r, "get_queries", "convert_fasta", expected_fastas)
          /\ run' = [run EXCEPT !.locals.newfastas = r.value.new_fastas,
                                !.locals.updated_genome = r.value.updated]
    /\ UNCHANGED <<prev, nruns>>

\* lines 1009-1010
Main_get_queries ==
    /\ pc = "get_queries"
    /\ LET r == get_queries(Disk, run.args.dups, run.args.query)
       IN /\ Goes(r, "generate_blast_list", "get_queries",
                  expected_queries)
          /\ run' = IF r.status = "return"
                    THEN [run EXCEPT !.locals.queries = r.value.new_queries,
                                     !.locals.updated_query = r.value.updated]
                    ELSE run
    /\ UNCHANGED <<prev, nruns>>

\* lines 1013-1015
Main_generate_blast_list ==
    PoolStart({run.args.pb}, 1..MaxWorkers, FALSE, FALSE)

\* lines 1018-1019
Main_read_blast_results ==
    /\ pc = "read_blast_results"
    /\ LET r == read_blast_results(Disk, run.locals.blastout)
       IN /\ Goes(r, "print_blast_summary", "read_blast_results",
                  blast_results)
          /\ run' = IF r.status = "return"
                    THEN [run EXCEPT !.locals.blastres = r.value]
                    ELSE run
    /\ UNCHANGED <<prev, nruns>>

\* lines 1020-1023: bp.print_blast_summary is called with five positional
\* arguments and has seven parameters without defaults
\* (src/util/blast_parser.py:58-59): the call raises TypeError
Main_print_blast_summary ==
    /\ pc = "print_blast_summary"
    /\ Goes(Raise(Disk), "print_fasta_files", "print_blast_summary",
            expected_filt)
    /\ run' = run
    /\ UNCHANGED <<prev, nruns>>

Init ==
    /\ pc = "idle"
    /\ run = [args |-> NoArgs, locals |-> NoLocals]
    /\ exitcode = -1
    /\ nruns = 0
    /\ \E cpdir \in BOOLEAN : DiskIs(EmptyDisk(cpdir))
    /\ pool = NoPool
    /\ configf = NoFile
    /\ ret = NoRet
    /\ prev = NoPrev

Next ==
    \/ Main_start
    \/ Main_get_labels
    \/ Main_convert_fasta
    \/ Main_get_queries
    \/ Main_generate_blast_list
    \/ Pool_take
    \/ Pool_finish
    \/ Pool_return
    \/ Main_read_blast_results
    \/ Main_print_blast_summary

Spec == Init /\ [][Next]_vars

(***************************************************************************)
(* get_labels called on its own, with any list of genome files             *)
(***************************************************************************)
Labels_get_labels ==
    /\ pc = "idle"
    /\ \E bases \in SeqsUpTo(LabelBases, MaxFastas) :
         LET r == get_labels(Disk, bases)
         IN /\ Goes(r, "idle", "get_labels", labelsf)
            /\ run' = [run EXCEPT !.args.fasta = bases,
                                  !.locals.labels = r.value]
    /\ UNCHANGED <<prev, nruns>>

NextLabels == Labels_get_labels

SpecLabels == Init /\ [][NextLabels]_vars

(***************************************************************************)
(* The stage functions of src/autoMLSA.py and src/util/blast_parser.py     *)
(* called in the order of main, each with the arguments of its own         *)
(* signature, and remove_intermediates called by the caller.  The genome   *)
(* files have one content each: a genome is without a hit for a query      *)
(* where the search has failed.                                            *)
(***************************************************************************)
LibFastaArgs == {<<"g1">>, <<"g1", "g2.fa">>, <<"g2.fa", "g1">>, <<"g1", "g1">>}
LibQueryArgs == {<<QFile("f1", <<RA>>)>>, <<QFile("f1", <<RA, RB>>)>>,
                 <<QFile("f1", <<RB, RA>>)>>}
LibSeqArgs == {[b \in Bases |-> "s1"]}
\* --allow_missing is any integer (src/autoMLSA.py:326-327, type=int)
AllowArgs == {-1, 0, 1}
Tags == {"genome", "query", "filter"}

\* how a call of a stage function ends the step: the caller goes on with its
\* locals, or the session is over and nothing of it is remembered
LibGoes(r, next, op, before, locals) ==
    /\ Goes(r, next, op, before)
    /\ run' = IF r.status = "return" /\ next # "idle" THEN locals ELSE NoRun

\* the stage functions, with the sets their arguments are drawn from
Stage_get_labels(FA, bound) ==
    /\ pc = "idle"
    /\ nruns < bound
    /\ nruns' = nruns + 1
    /\ \E fa \in FA :
         LET r == get_labels(Disk, fa)
         IN LibGoes(r, "convert_fasta", "get_labels", labelsf,
                    [args |-> [NoArgs EXCEPT !.fasta = fa],
                     locals |-> [NoLocals EXCEPT !.labels = r.value]])
    /\ UNCHANGED prev

Stage_convert_fasta(SA) ==
    /\ pc = "convert_fasta"
    /\ \E sq \in SA :
         LET r == convert_fasta(Disk, run.args.fasta, run.locals.labels, sq)
         IN LibGoes(r, "get_queries", "convert_fasta", expected_fastas,
                    [run EXCEPT !.args.seqOf = sq,
                                !.locals.newfastas = r.value.new_fastas,
                                !.locals.updated_genome = r.value.updated])
    /\ UNCHANGED <<prev, nruns>>

Stage_get_queries(QA) ==
    /\ pc = "get_queries"
    /\ \E qa \in QA :
         LET r == get_queries(Disk, FALSE, qa)
         IN LibGoes(r, "generate_blast_list", "get_queries",
                    expected_queries,
                    [run EXCEPT !.args.query = qa,
                                !.locals.queries = r.value.new_queries,
                                !.locals.updated_query = r.value.updated])
    /\ UNCHANGED <<prev, nruns>>

Stage_read_blast_results ==
    /\ pc = "read_blast_results"
    /\ LET r == read_blast_results(Disk, run.locals.blastout)
       IN LibGoes(r, "print_blast_summary", "read_blast_results",
                  blast_results,
                  [run EXCEPT !.locals.blastres = r.value])
    /\ UNCHANGED <<prev, nruns>>

Stage_print_blast_summary(NA, MC, CK) ==
    /\ pc = "print_blast_summary"
    /\ \E na \in NA, mc \in MC, ckpt \in CK,
          best \in BestRows(run.locals.blastres) :
         LET r == print_blast_summary(Disk, run.locals.blastres,
                                      run.locals.labels, na, mc, ckpt, best)
         IN LibGoes(r, "print_fasta_files", "print_blast_summary",
                    expected_filt,
                    [run EXCEPT !.args.nallowed = na,
                                !.args.missing_check = mc,
                                !.locals.blastkeeps = r.value])
    /\ UNCHANGED <<prev, nruns>>

Stage_print_fasta_files(next) ==
    /\ pc = "print_fasta_files"
    /\ \E early \in IF \A r \in run.locals.blastkeeps.rows :
                           r.sseqid + 1 <= Len(run.locals.labels)
                     THEN {run.locals.blastkeeps.rows}
                     ELSE SUBSET run.locals.blastkeeps.rows :
         LET r == print_fasta_files(Disk, run.locals.blastkeeps,
                                    run.locals.labels, early)
         IN LibGoes(r, next, "print_fasta_files", unaligned,
                    [run EXCEPT !.locals.unaligned = r.value])
    /\ UNCHANGED <<prev, nruns>>

Lib_get_labels == Stage_get_labels(LibFastaArgs, MaxSessions)
Lib_convert_fasta == Stage_convert_fasta(LibSeqArgs)
Lib_get_queries == Stage_get_queries(LibQueryArgs)
Lib_generate_blast_list == PoolStart(BOOLEAN, DefaultThreads, FALSE, TRUE)
Lib_read_blast_results == Stage_read_blast_results
Lib_print_blast_summary ==
    Stage_print_blast_summary(AllowArgs, BOOLEAN, BOOLEAN)
Lib_print_fasta_files == Stage_print_fasta_files("idle")

\* called between two sessions, or by the caller after one of the two
\* comparisons of its inputs
Lib_remove_intermediates ==
    /\ pc \in {"idle", "get_queries", "generate_blast_list"}
    /\ \E tag \in Tags :
         /\ SetDisk(remove_intermediates(Disk, {tag}))
         /\ ret' = [op |-> "remove_intermediates",
                    status |-> remove_intermediates_status(Disk, {tag}),
                    value |-> tag, before |-> NoFile, marks |-> checkpoint]
    /\ UNCHANGED <<pc, run, exitcode, prev, nruns, pool, configf>>

NextLib ==
    \/ Lib_get_labels
    \/ Lib_convert_fasta
    \/ Lib_get_queries
    \/ Lib_generate_blast_list
    \/ Pool_take
    \/ Pool_finish
    \/ Pool_return
    \/ Lib_read_blast_results
    \/ Lib_print_blast_summary
    \/ Lib_print_fasta_files
    \/ Lib_remove_intermediates

\* the run directory as config_rundir of src/util/parse_args.py leaves it
InitLib ==
    /\ pc = "idle"
    /\ run = NoRun
    /\ exitcode = -1
    /\ nruns = 0
    /\ DiskIs(EmptyDisk(TRUE))
    /\ pool = NoPool
    /\ configf = NoFile
    /\ ret = NoRet
    /\ prev = NoPrev

SpecLib == InitLib /\ [][NextLib]_vars

(***************************************************************************)
(* The search stage on its own, the closed pool remembered: what the       *)
(* worker processes did is what the properties of the pool are about.      *)
(***************************************************************************)
\* the query files of the sessions, each at its path
PresentQueryArgs == {<<QFile("f1", <<RA>>)>>, <<QFile("f1", <<RA, RB>>)>>}

Pool_start_main == PoolStart({FALSE}, 1..MaxWorkers, TRUE, TRUE)

Pool_get_labels == Stage_get_labels(FastaArgs, MaxSessions)
Pool_convert_fasta == Stage_convert_fasta(SeqArgs)
Pool_get_queries == Stage_get_queries(PresentQueryArgs)
Pool_read_blast_results == Stage_read_blast_results
Pool_print_blast_summary == Stage_print_blast_summary({0}, {TRUE}, {FALSE})
Pool_print_fasta_files == Stage_print_fasta_files("idle")

NextPool ==
    \/ Pool_get_labels
    \/ Pool_convert_fasta
    \/ Pool_get_queries
    \/ Pool_start_main
    \/ Pool_take
    \/ Pool_finish
    \/ Pool_return
    \/ Pool_read_blast_results
    \/ Pool_print_blast_summary
    \/ Pool_print_fasta_files

SpecPool == InitLib /\ [][NextPool]_vars

(***************************************************************************)
(* The whole pipeline, the stage functions followed by run_mafft,          *)
(* generate_nexus, run_iqtree and exit_successfully of src/autoMLSA.py,    *)
(* with remove_intermediates called between two sessions on whatever the   *)
(* sessions before have left.                                              *)
(***************************************************************************)
Inval_get_labels == Stage_get_labels(FastaArgs, MaxSessions)
Inval_convert_fasta == Stage_convert_fasta(SeqArgs)
Inval_get_queries == Stage_get_queries(PresentQueryArgs)
Inval_generate_blast_list == PoolStart({FALSE}, 1..MaxWorkers, FALSE, TRUE)
Inval_read_blast_results == Stage_read_blast_results
Inval_print_blast_summary == Stage_print_blast_summary({0}, {TRUE}, {FALSE})
Inval_print_fasta_files == Stage_print_fasta_files("run_mafft")

Inval_run_mafft ==
    /\ pc = "run_mafft"
    /\ \E updated \in BOOLEAN, failed \in SUBSET run.locals.unaligned :
         /\ LET r == run_mafft(Disk, run.locals.unaligned, updated, failed)
            IN LibGoes(r, "generate_nexus", "run_mafft", aligned,
                       [run EXCEPT !.locals.aligned = r.value])
    /\ UNCHANGED <<prev, nruns>>

Inval_generate_nexus ==
    /\ pc = "generate_nexus"
    /\ \E updated \in BOOLEAN :
         LET r == generate_nexus(Disk, run.locals.aligned, updated)
         IN LibGoes(r, "run_iqtree", "generate_nexus", NoFile,
                    [run EXCEPT !.locals.nexus = r.value])
    /\ UNCHANGED <<prev, nruns>>

Inval_run_iqtree ==
    /\ pc = "run_iqtree"
    /\ \E updated \in BOOLEAN, fail \in BOOLEAN :
         LET r == run_iqtree(Disk, run.locals.nexus, updated, fail)
         IN LibGoes(r, "exit_successfully", "run_iqtree", NoFile,
                    [run EXCEPT !.locals.treefile = r.value])
    /\ UNCHANGED <<prev, nruns>>

Inval_exit_successfully ==
    /\ pc = "exit_successfully"
    /\ LibGoes(exit_successfully(Disk), "idle", "exit_successfully", NoFile,
               run)
    /\ UNCHANGED <<prev, nruns>>

\* the call, with the run directory as it was before it
Inval_remove_intermediates ==
    /\ pc = "idle"
    /\ \E tag \in Tags :
         /\ SetDisk(remove_intermediates(Disk, {tag}))
         /\ ret' = [op |-> "remove_intermediates",
                    status |-> remove_intermediates_status(Disk, {tag}),
                    value |-> tag, before |-> Disk, marks |-> checkpoint]
    /\ UNCHANGED <<pc, run, exitcode, prev, nruns, pool, configf>>

NextInval ==
    \/ Inval_get_labels
    \/ Inval_convert_fasta
    \/ Inval_get_queries
    \/ Inval_generate_blast_list
    \/ Pool_take
    \/ Pool_finish
    \/ Pool_return
    \/ Inval_read_blast_results
    \/ Inval_print_blast_summary
    \/ Inval_print_fasta_files
    \/ Inval_run_mafft
    \/ Inval_generate_nexus
    \/ Inval_run_iqtree
    \/ Inval_exit_successfully
    \/ Inval_remove_intermediates

SpecInval == InitLib /\ [][NextInval]_vars

(***************************************************************************)
(* get_queries called on its own, with one or two query files and with     *)
(* and without --dups                                                      *)
(***************************************************************************)
RAy == [id |-> IdA, seq |-> "y"]
RAbar == [id |-> IdAbar, seq |-> "y"]

DupQueryArgs ==
    UNION {{<<QFile("f1", r1)>>,
            <<QFile("f1", r1), QFile("f2", r2)>>,
            <<QFile("f2", r2), QFile("f1", r1)>>} :
           r1 \in {<<RA>>, <<RA, RB>>}, r2 \in {<<RAy>>, <<RAbar>>, <<RB>>}}

\* lists with a query file that is no longer at its path, and lists with
\* two query files of one base name in two directories
GoneQueryArgs ==
    {<<QGone("f1")>>,
     <<QGone("f1"), QFile("f2", <<RB>>)>>,
     <<QFile("f1", <<RA>>), QGone("f2")>>,
     <<QFile("f1", <<RA>>), QFile("e/f1", <<RB>>)>>,
     <<QGone("f1"), QFile("e/f1", <<RB>>)>>}

Queries_get_queries ==
    /\ pc = "idle"
    /\ nruns < MaxRuns
    /\ nruns' = nruns + 1
    /\ \E dups \in BOOLEAN, qa \in DupQueryArgs \cup GoneQueryArgs :
         LET r == get_queries(Disk, dups, qa)
         IN /\ Goes(r, "idle", "get_queries", File(querydir))
            /\ run' = [run EXCEPT !.args.query = qa, !.args.dups = dups]
    /\ prev' = [called |-> ret.op = "get_queries",
                query |-> run.args.query,
                dups |-> run.args.dups,
                status |-> ret.status,
                value |-> ret.value,
                expected_queries |-> expected_queries,
                backupsdir |-> backupsdir]

NextQueries == Queries_get_queries

SpecQueries == InitLib /\ [][NextQueries]_vars

(***************************************************************************)
(* Invocations of main with the genome files given by their paths:         *)
(* validate_arguments (src/autoMLSA.py:519-547) gets the list of paths the *)
(* command line, config.json and the --dir directories add up to, and the  *)
(* stages take the base name of each path.                                 *)
(***************************************************************************)
\* the lists of paths, a path the directory and the base name, and the
\* sequence content of the file at each path
PathArgs ==
    LET GenomePath(dir, base) == [dir |-> dir, base |-> base]
    IN [fasta : {<<GenomePath("d1", "g1")>>, <<GenomePath("d2", "g1")>>,
                 <<GenomePath("d1", "g1"), GenomePath("d1", "g2.fa")>>,
                 <<GenomePath("d2", "g1"), GenomePath("d1", "g2.fa")>>,
                 <<GenomePath("d1", "g1"), GenomePath("d2", "g1")>>,
                 <<GenomePath("d1", "g1"), GenomePath("d1", "g1")>>},
        content : {c \in [[dir : {"d1", "d2"}, base : Bases] -> Seqs] :
                      \A p \in DOMAIN c : p.base = "g2.fa" => c[p] = "s1"}]

\* os.path.basename
BasenameOfDir(path) == IF path.dir = "d1" THEN path.base ELSE "g2.fa"

Basename(path) == path.base

Basenames(fasta) == [i \in DOMAIN fasta |-> Basename(fasta[i])]

\* lines 527-547: duplicates of a path go, and two paths left with one base
\* name end the run with status 65
validate_arguments_nocheck(d, fasta) == Return(d, FromKeys(fasta))

validate_arguments(d, fasta) ==
    LET f == FromKeys(fasta)
    IN IF \E i, j \in 1..Len(f) : i < j /\ Basename(f[i]) = Basename(f[j])
       THEN Exit(d, 65)
       ELSE Return(d, f)

\* the content of the source file of each base name of the list
SeqOfBases(fasta, content) ==
    [b \in Bases |->
        IF \E i \in 1..Len(fasta) : Basename(fasta[i]) = b
        THEN content[fasta[CHOOSE i \in 1..Len(fasta) :
                               Basename(fasta[i]) = b]]
        ELSE "s1"]

\* lines 983-999 of main: the arguments are validated and config.json is
\* written; what is remembered of the invocation before this one is its
\* paths and contents, whether it came through convert_fasta and through
\* every search, and the copies and outputs it left
Paths_start ==
    /\ pc = "idle"
    /\ nruns < MaxRuns
    /\ nruns' = nruns + 1
    /\ \E a \in PathArgs :
         LET fa == a.fasta
             content == a.content
             r == validate_arguments(Disk, fa)
             f == FromKeys(fa)
             args == [NoArgs EXCEPT !.paths = f, !.fasta = Basenames(f),
                                    !.seqOf = SeqOfBases(f, content),
                                    !.query = <<QFile("f1", <<RA>>)>>]
         IN /\ run' = [args |-> args, locals |-> NoLocals]
            /\ ret' = [op |-> "validate_arguments", status |-> r.status,
                       value |-> r.value,
                       before |-> [disk |-> Disk, config |-> configf],
                       marks |-> checkpoint]
            /\ IF r.status = "return"
               THEN /\ pc' = "get_labels"
                    /\ exitcode' = exitcode
                    /\ configf' = write_config(args)
               ELSE /\ pc' = "idle"
                    /\ exitcode' = r.code
                    /\ configf' = configf
    /\ prev' = [exists |-> exitcode # -1,
                paths |-> run.args.paths,
                seqOf |-> run.args.seqOf,
                converted |-> run.locals.newfastas # <<>>,
                allok |-> /\ run.locals.blastout # <<>>
                          /\ AllSearched(Disk, run.locals.blastout),
                fastadir |-> fastadir,
                rename_info |-> rename_info,
                blast_results |-> blast_results,
                blastdir |-> blastdir]
    /\ pool' = pool
    /\ SetDisk(Disk)

NextPaths ==
    \/ Paths_start
    \/ Main_get_labels
    \/ Main_convert_fasta
    \/ Main_get_queries
    \/ Main_generate_blast_list
    \/ Pool_take
    \/ Pool_finish
    \/ Pool_return
    \/ Main_read_blast_results
    \/ Main_print_blast_summary

SpecPaths == Init /\ [][NextPaths]_vars

(***************************************************************************)
(* generate_blast_list with the file names written out.  A name is the     *)
(* sequence of its pieces, and joining names is concatenation; the digest  *)
(* of a sequence is one piece.  outname above keeps the pair (query,       *)
(* target) in place of the name, which over the queries and base names of  *)
(* the other specifications is one-to-one; here the record ids and the     *)
(* genome base names are any names a user can give.                        *)
(***************************************************************************)
\* the extracted queries (safe id and digest), without repeats as
\* get_queries leaves them, and the renamed genomes, by name
NamedArgs ==
    [queries : {qs \in SeqsUpTo({[id |-> <<"a">>, hash |-> "hx"],
                                 [id |-> <<"a", "_", "hx", "_", "vs", "_", "b">>,
                                  hash |-> "hy"]}, 2) :
                   /\ qs # <<>>
                   /\ \A i, j \in 1..Len(qs) :
                          i # j => qs[i].hash # qs[j].hash},
     targets : {<<<<"c">>>>, <<<<"b">>>>,
                <<<<"c">>, <<"b", "_", "hy", "_", "vs", "_", "c">>>>,
                <<<<"b">>, <<"c">>>>}]

\* line 773 of get_queries: <safeid>_<seqhash>.fas, and lines 826-828:
\* <query_base>_vs_<target_base>.tab, query_base the name less its extension
query_base(query) == query.id \o <<"_", query.hash>>

outpath(query, target) ==
    query_base(query) \o <<"_", "vs", "_">> \o target \o <<".tab">>

\* lines 823-839: the output paths, targets outermost, and a command for
\* each path that is absent or of size 0; dir is the directory blast/
RECURSIVE NamedCmds(_, _, _)
NamedCmds(dir, queries, targets) ==
    IF targets = <<>> THEN <<>>
    ELSE [i \in 1..Len(queries) |->
             [db |-> Head(targets), query |-> queries[i],
              out |-> outpath(queries[i], Head(targets)),
              run |-> LET out == outpath(queries[i], Head(targets))
                      IN out \notin DOMAIN dir \/ dir[out].empty]]
         \o NamedCmds(dir, queries, Tail(targets))

\* run_blast_search (lines 861-862): the command writes the file at its
\* output path, of size 0 when the search fails
NamedOut(dir, c, fail) ==
    LET out == IF fail THEN [empty |-> TRUE, db |-> <<>>, query |-> <<>>]
               ELSE [empty |-> FALSE, db |-> c.db, query |-> c.query.id]
    IN (c.out :> out) @@ dir

\* the value returned, line 858, with the pair of each path
NamedValue(dir, queries, targets) ==
    LET all == NamedCmds(dir, queries, targets)
    IN [blastout |-> [i \in 1..Len(all) |-> all[i].out], pairs |-> all]

\* lines 813-855: the paths and the commands, and the pool with its tasks;
\* without a command the call returns at once
Named_generate_blast_list ==
    /\ pc = "idle"
    /\ nruns < MaxSessions
    /\ nruns' = nruns + 1
    /\ \E a \in NamedArgs, threads \in 1..MaxWorkers :
         LET cmds == SelectSeq(NamedCmds(blastdir, a.queries, a.targets),
                               LAMBDA c : c.run)
         IN /\ run' = [run EXCEPT !.locals.queries = a.queries,
                                  !.locals.newfastas = a.targets]
            /\ IF cmds = <<>>
               THEN /\ pc' = pc
                    /\ pool' = pool
                    /\ ret' = [op |-> "generate_blast_list",
                               status |-> "return",
                               value |-> NamedValue(blastdir, a.queries,
                                                    a.targets),
                               before |-> blastdir, marks |-> checkpoint]
               ELSE /\ pc' = "pool"
                    /\ pool' = PoolOpen(Disk, cmds, threads, FALSE)
                    /\ ret' = NoRet
    /\ SetDisk(Disk)
    /\ UNCHANGED <<exitcode, configf, prev>>

\* the command a worker process runs ends and has written its output; two
\* commands with one output path write one file, the later over the earlier
Named_finish ==
    /\ pc = "pool"
    /\ \E w \in 1..pool.k, fail \in BOOLEAN :
         /\ pool.workers[w] # <<>>
         /\ pool' = PoolAfter(pool, w, fail)
         /\ SetDisk([Disk EXCEPT
                        !.blastdir = NamedOut(@, Head(pool.workers[w]), fail)])
    /\ UNCHANGED <<pc, run, exitcode, nruns, ret, prev, configf>>

\* lines 855-858: map has returned, and the list of paths is returned
Named_return ==
    /\ pc = "pool"
    /\ PoolAllDone(pool)
    /\ pc' = "idle"
    /\ pool' = NoPool
    /\ ret' = [op |-> "generate_blast_list", status |-> "return",
               value |-> NamedValue(pool.blast0, run.locals.queries,
                                    run.locals.newfastas),
               before |-> pool.blast0, marks |-> checkpoint]
    /\ SetDisk(Disk)
    /\ UNCHANGED <<run, exitcode, nruns, prev, configf>>

NextNamed ==
    \/ Named_generate_blast_list
    \/ Pool_take
    \/ Named_finish
    \/ Named_return

InitNamed ==
    /\ pc = "idle"
    /\ run = NoRun
    /\ exitcode = -1
    /\ nruns = 0
    /\ DiskIs([EmptyDisk(TRUE) EXCEPT !.blastdir = <<>>])
    /\ pool = NoPool
    /\ configf = NoFile
    /\ ret = NoRet
    /\ prev = NoPrev

SpecNamed == InitNamed /\ [][NextNamed]_vars

(***************************************************************************)
(* print_blast_summary on the table of a run whose searches all ended:     *)
(* the genomes, their contents and labels, the extracted queries (two of   *)
(* one id among them, as get_queries leaves them with --dups), the values  *)
(* of --allow_missing (one below zero), those of missing_check and the     *)
(* best row of each query id and genome are drawn, with no stop asked for; *)
(* the                                                                     *)
(* table is the one read_blast_results makes of the search outputs         *)
(* (blast_parser.py:45-52), and the call is made on the run directory as   *)
(* the calls before left it.  A caller that goes for print_blast_summary   *)
(* of src/util/blast_functions.py has to import that file first.           *)
(***************************************************************************)
SearchTable(fasta, seqOf, labels, queries) ==
    AppendedTable(
        UNION {BlastRows(q, [label |-> Index(labels, b), seq |-> seqOf[b]]) :
                  q \in queries, b \in ToSet(fasta)})

Summary_print_blast_summary ==
    /\ pc = "idle"
    /\ nruns < MaxSessions
    /\ nruns' = nruns + 1
    /\ \E a \in [fasta : {<<"g1">>, <<"g1", "g2.fa">>},
                 seqOf : SeqArgs,
                 labels : {<<"g1", "g2.fa">>, <<"g2.fa", "g1">>},
                 queries : {qs \in SUBSET Queries :
                               /\ qs # {}
                               /\ \A q1, q2 \in qs :
                                      q1.hash = q2.hash => q1 = q2},
                 nallowed : AllowArgs,
                 missing_check : BOOLEAN] :
         LET blastres == SearchTable(a.fasta, a.seqOf, a.labels, a.queries)
         IN \E best \in BestRows(blastres) :
         LET r == print_blast_summary(Disk, blastres, a.labels, a.nallowed,
                                      a.missing_check, FALSE, best)
         IN /\ Goes(r, "idle", "print_blast_summary",
                    [disk |-> Disk, blastres |-> blastres])
            /\ run' = [run EXCEPT !.args.fasta = a.fasta,
                                  !.args.seqOf = a.seqOf,
                                  !.args.nallowed = a.nallowed,
                                  !.args.missing_check = a.missing_check,
                                  !.locals.labels = a.labels,
                                  !.locals.blastres = blastres]
    /\ UNCHANGED prev

\* src/util/blast_functions.py:11: the import ends the caller with a
\* traceback
Summary_import_blast_functions ==
    /\ pc = "idle"
    /\ nruns < MaxSessions
    /\ nruns' = nruns + 1
    /\ Goes(import_blast_functions(Disk), "idle", "import_blast_functions",
            NoFile)
    /\ run' = NoRun
    /\ UNCHANGED prev

NextSummary ==
    \/ Summary_print_blast_summary
    \/ Summary_import_blast_functions

SpecSummary == InitLib /\ [][NextSummary]_vars

(***************************************************************************)
(* Properties                                                              *)
(***************************************************************************)
SetOf(f) == ToSet(ReadList(f))

\* the invocation of main that is running or has just ended was given the
\* genomes, contents, queries and options of the invocation before it, and
\* that one ran its searches and left every output of its list non-empty
SecondOfTwo ==
    /\ prev.exists
    /\ prev.same
    /\ prev.allok

\* C1: when main is invoked twice in a row with the same inputs and every
\* search of the first invocation left a non-empty output, the second
\* invocation dispatches no search (its list of commands is empty and the
\* pool is never started) and leaves the expected genomes, the expected
\* queries and the expected kept genomes equal, as sets, to what the first
\* left.
C1_Idempotent ==
    SecondOfTwo =>
        /\ run.locals.cmds = {}
        /\ pc # "pool"
        /\ blastdir = prev.blastdir
        /\ SetOf(expected_fastas) = SetOf(prev.expected_fastas)
        /\ SetOf(expected_queries) = SetOf(prev.expected_queries)
        /\ SetOf(expected_filt) = SetOf(prev.expected_filt)

\* the second of two such invocations has come through generate_blast_list
\* and read_blast_results and has ended at print_blast_summary, with both
\* expected lists of the first in place
C1_Witness ==
    /\ SecondOfTwo
    /\ pc = "idle"
    /\ ret.op = "print_blast_summary"
    /\ run.locals.blastout # <<>>
    /\ blast_results.exists
    /\ prev.expected_fastas.exists
    /\ prev.expected_queries.exists
    /\ Len(run.locals.queries) > 1

\* C2: a base name at a position of the labels list before a call of
\* get_labels is at the same position of the list the call returns and
\* persists, whatever the genome files of the call are; by induction it is
\* there after every later call.
C2_LabelStable ==
    ret.op = "get_labels" =>
        /\ labelsf.exists
        /\ ret.value = labelsf.data
        /\ \A i \in 1..Len(ret.before.data) :
             /\ i <= Len(labelsf.data)
             /\ labelsf.data[i] = ret.before.data[i]

\* a call whose genome files lack a labelled base name and bring a new one
C2_Witness ==
    /\ ret.op = "get_labels"
    /\ ret.before.exists
    /\ Len(labelsf.data) > Len(ret.before.data)
    /\ \E i \in 1..Len(ret.before.data) :
         ret.before.data[i] \notin ToSet(run.args.fasta)

\* C3: after convert_fasta, the renamed copy of every genome file of the run
\* has the content the file has now, and no search output of the genome is
\* left that was made from another content.
C3_DriftDetected ==
    (ret.op = "convert_fasta" /\ ret.status = "return") =>
        \A b \in ToSet(run.args.fasta) :
            /\ fastadir[b].data.seq = run.args.seqOf[b]
            /\ \A o \in OutNames :
                 (o[2] = b /\ blastdir[o].exists /\ ~blastdir[o].data.empty)
                 => blastdir[o].data.db = run.args.seqOf[b]

\* the queries of the run are those of the run before and more, and the
\* genomes are those of the run before
AdditiveQueryChange ==
    /\ prev.exists
    /\ run.locals.blastout # <<>>
    /\ SetOf(prev.expected_queries) # {}
    /\ SetOf(prev.expected_queries) \subseteq ToSet(run.locals.queries)
    /\ SetOf(prev.expected_queries) # ToSet(run.locals.queries)
    /\ SetOf(prev.expected_fastas) = ToSet(run.locals.newfastas)

\* C4: in a run whose queries are those of the run before and more, with
\* the same genomes, every search output that was there before the run is
\* still there, and one that was not empty is unchanged and was not
\* searched again.
C4_AdditiveQueryFrame ==
    AdditiveQueryChange =>
        \A o \in OutNames :
            prev.blastdir[o].exists =>
                /\ blastdir[o].exists
                /\ ~prev.blastdir[o].data.empty =>
                     /\ blastdir[o] = prev.blastdir[o]
                     /\ o \notin run.locals.cmds

\* such a run, with a finished output from before and new searches made
C4_Witness ==
    /\ AdditiveQueryChange
    /\ run.locals.cmds # {}
    /\ \E o \in OutNames :
         prev.blastdir[o].exists /\ ~prev.blastdir[o].data.empty

\* C5: in a run that lacks a query of the run before, the aggregated table
\* .autoMLSA/blast_results.tsv is gone by the time read_blast_results reads.
C5_RemovalInvalidates ==
    ( /\ ret.op = "read_blast_results"
      /\ ret.status = "return"
      /\ prev.exists
      /\ \E q \in SetOf(prev.expected_queries) :
           q \notin ToSet(run.locals.queries) )
    => ~ret.before.exists

\* C6: when the run before detected a change of the genomes or of the
\* queries and ended before its last stage, the run after it on the same
\* inputs still holds the change as detected.
C6_RecordSurvives ==
    (pc = "generate_blast_list" /\ prev.exists /\ prev.same) =>
        /\ prev.updated_genome => run.locals.updated_genome
        /\ prev.updated_query => run.locals.updated_query

Returned(op) == ret.op = op /\ ret.status = "return"

\* C7: after convert_fasta, get_queries or print_blast_summary has returned,
\* the persisted expected list is the list the call computed, whether or not
\* the call found a change.
C7_Overwrites ==
    /\ Returned("convert_fasta") =>
         expected_fastas = File(ret.value.new_fastas)
    /\ Returned("get_queries") =>
         expected_queries = File(ret.value.new_queries)
    /\ Returned("print_blast_summary") =>
         expected_filt = File(Keeps(run.locals.blastres, run.locals.labels,
                                    run.args.nallowed))

\* a call that found no change and yet replaced a list in another order
C7_Witness ==
    /\ Returned("convert_fasta")
    /\ ~ret.value.updated
    /\ ret.before.exists
    /\ Len(ret.before.data) = Len(ret.value.new_fastas)
    /\ ret.before.data # ret.value.new_fastas

\* C8: the change flag of each of the three comparisons is true exactly
\* when the persisted list and the current list differ as sets, an absent
\* file standing for the empty set; print_blast_summary shows its flag by
\* the invalidation it runs, which removes the keepsidx.json just written.
C8_SetChange ==
    /\ Returned("convert_fasta") =>
         (ret.value.updated <=>
            SetOf(ret.before) # ToSet(ret.value.new_fastas))
    /\ Returned("get_queries") =>
         (ret.value.updated <=>
            SetOf(ret.before) # ToSet(ret.value.new_queries))
    /\ Returned("print_blast_summary") =>
         (("keepsidx.json" \notin tmpfiles) <=>
            SetOf(ret.before) # SetOf(expected_filt))

\* a comparison of a list with repeated members against the list without
\* them, which finds no change
C8_Witness ==
    /\ Returned("convert_fasta")
    /\ ~ret.value.updated
    /\ ret.before.exists
    /\ Len(ret.before.data) # Len(ret.value.new_fastas)

later_markers == {"read_blast_results", "print_blast_summary",
                  "print_fasta_files"}

\* C9: after remove_intermediates has run with the genome tag, no marker
\* of read_blast_results, print_blast_summary or print_fasta_files is left.
C9_MarkersCleared ==
    (ret.op = "remove_intermediates" /\ ret.value = "genome") =>
        checkpoint \cap later_markers = {}

\* C10: no call takes a marker away, be it a stage function that returns,
\* stops or fails, or an invalidation, and the call of a stage whose marker
\* was there leaves the markers as they were.
C10_MarkersMonotone ==
    /\ ret.marks \subseteq checkpoint
    /\ ret.op \in ret.marks => checkpoint = ret.marks

\* read_blast_results has returned in a later session, with its marker and
\* those of the stages after it there from an earlier one
C10_Witness ==
    /\ nruns > 1
    /\ Returned("read_blast_results")
    /\ later_markers \subseteq ret.marks

\* C11: a stop asked for at the search stage ends the run with exit status
\* 1, the status of an intermediate stop, and with no search started: the
\* search outputs are as they were when the run began.
C11_StopStatus ==
    (ret.op = "generate_blast_list" /\ run.args.pb /\ ret.status # "return")
        => /\ ret.status = "exit"
           /\ exitcode = 1
           /\ blastdir = prev.blastdir

\* C12: at no point do more searches run at the same time than the pool
\* has worker processes, whatever the number of searches handed over.
C12_ConcurrencyBound ==
    Cardinality(pool.started \ pool.done) <= pool.k

\* more searches than worker processes were handed over, every worker runs
\* one and tasks are still waiting
C12_Witness ==
    /\ pool.open
    /\ pool.k > 1
    /\ Len(pool.cmds) > pool.k
    /\ Cardinality(pool.started \ pool.done) = pool.k
    /\ pool.queue # <<>>

later_stages == {"read_blast_results", "print_blast_summary",
                 "print_fasta_files"}

\* C13: the caller is at read_blast_results or a later stage only when
\* every search of the list handed to the pool was started and has ended;
\* while the pool runs no marker is written; and when the call has returned
\* the outputs are those of the whole list, whatever the order the searches
\* ended in.
C13_Barrier ==
    /\ (pc \in later_stages /\ run.locals.cmds # {}) =>
          /\ ~pool.open
          /\ pool.started = run.locals.cmds
          /\ pool.done = run.locals.cmds
    /\ pool.open => checkpoint = pool.marks
    /\ (ret.op = "generate_blast_list" /\ run.locals.cmds # {}) =>
          blastdir = RunPool([Disk EXCEPT !.blastdir = pool.blast0],
                             pool.cmds, pool.failed).blastdir

\* generate_blast_list has returned from a pool of more than two searches
\* and more than one worker process, one search having ended before one
\* listed before it and one having failed, on a run directory with the
\* markers and the search outputs of a session before
C13_Witness ==
    /\ Returned("generate_blast_list")
    /\ pc = "read_blast_results"
    /\ pool.k > 1
    /\ pool.ooo
    /\ Cardinality(pool.done) > 2
    /\ pool.failed # {}
    /\ pool.marks # {}
    /\ \E o \in OutNames : pool.blast0[o].exists

\* the searches of the list that wait for a worker process
PoolWaiting(p) ==
    UNION {ToSet(p.queue[i]) : i \in 1..Len(p.queue)}
    \cup UNION {ToSet(p.workers[w]) : w \in 1..p.k}

\* C14: after a search has ended with a non-zero status, every other search
\* of the list still waits for a worker, runs or has ended, and the call
\* returns normally with all of them ended.
C14_FailureNotFatal ==
    pool.failed # {} =>
        /\ ToSet(pool.cmds) = pool.done \cup PoolWaiting(pool)
        /\ ~pool.open =>
              /\ pool.done = ToSet(pool.cmds)
              /\ ret.op = "generate_blast_list" => ret.status = "return"

\* the one worker process of the pool ran the first search of a longer
\* list, it failed, and the call has returned
C14_Witness ==
    /\ Returned("generate_blast_list")
    /\ pc = "read_blast_results"
    /\ pool.k = 1
    /\ Len(pool.cmds) > 1
    /\ pool.cmds[1] \in pool.failed

\* C15: when generate_blast_list has run its searches and an output of its
\* list is absent or empty, the run has ended at that stage with a failure
\* status and main has not gone on to read_blast_results.
C15_ToolFailureStops ==
    (/\ ret.op = "generate_blast_list"
     /\ ~run.args.pb
     /\ ~AllSearched(Disk, BlastOutOf(run.locals.queries,
                                      run.locals.newfastas)))
        => /\ pc = "idle"
           /\ ret.status = "exit"
           /\ exitcode \notin {0, 1}

\* C16: after remove_intermediates has run with the genome tag or with the
\* filter tag, none of the result cache, unaligned/, aligned/, the files the
\* filter stage left in .autoMLSA and the partition and tree files is left.
C16_GenomeScope ==
    (ret.op = "remove_intermediates" /\ ret.value \in {"genome", "filter"})
        => /\ ~blast_results.exists
           /\ ~unaligned.exists
           /\ ~aligned.exists
           /\ tmpfiles \cap genome_tmpfiles = {}
           /\ nexfiles = {}

\* C17: remove_intermediates with the query tag leaves no partition or tree
\* file and leaves everything else of the run directory as it was.
C17_QueryScope ==
    (ret.op = "remove_intermediates" /\ ret.value = "query")
        => /\ nexfiles = {}
           /\ Disk = [ret.before EXCEPT !.nexfiles = {}]

\* the query tag, on a run directory with the partition file, the tree,
\* both directories, the cache, the summary files and the snapshots
C17_Witness ==
    /\ ret.op = "remove_intermediates"
    /\ ret.value = "query"
    /\ NexNamed(ret.before, "nex") # {}
    /\ NexNamed(ret.before, "nex.treefile") # {}
    /\ unaligned.exists /\ aligned.exists /\ blast_results.exists
    /\ genome_tmpfiles \subseteq tmpfiles
    /\ expected_filt.exists /\ expected_fastas.exists
    /\ expected_queries.exists

\* C18: whatever the tag and the run directory, remove_intermediates leaves
\* the renamed genomes of fasta/, the search outputs of blast/, labels.json
\* and rename.json as they were.
C18_RawKept ==
    ret.op = "remove_intermediates"
        => /\ fastadir = ret.before.fastadir
           /\ blastdir = ret.before.blastdir
           /\ labelsf = ret.before.labelsf
           /\ rename_info = ret.before.rename_info

\* the genome tag, on a run directory with a renamed genome, a search
\* output, the labels and the rename registry, and downstream files to remove
C18_Witness ==
    /\ ret.op = "remove_intermediates"
    /\ ret.value = "genome"
    /\ \E b \in Bases : fastadir[b].exists
    /\ \E o \in OutNames : blastdir[o].exists /\ ~blastdir[o].data.empty
    /\ labelsf.exists
    /\ rename_info # <<>>
    /\ ret.before.unaligned.exists
    /\ ret.before.blast_results.exists

\* C19: remove_intermediates ends without an error whichever of its targets
\* are there, and a second call right after it would change nothing.
C19_AbsentTolerated ==
    ret.op = "remove_intermediates"
        => /\ ret.status = "return"
           /\ remove_intermediates_status(Disk, {ret.value}) = "return"
           /\ remove_intermediates(Disk, {ret.value}) = Disk

\* the genome tag, on a run directory where unaligned/ and aligned/ are
\* there and the result cache and the partition files are not
C19_Witness ==
    /\ ret.op = "remove_intermediates"
    /\ ret.value = "genome"
    /\ ret.before.unaligned.exists
    /\ ret.before.aligned.exists
    /\ ~ret.before.blast_results.exists
    /\ ret.before.nexfiles = {}
    /\ ~unaligned.exists

\* two distinct query files, each with one record, the two records with the
\* same safe id and different sequences
TwoFilesSameId(qa) ==
    /\ Len(qa) = 2
    /\ qa[1].name # qa[2].name
    /\ Len(qa[1].recs) = 1 /\ Len(qa[2].recs) = 1
    /\ sanitize_path(qa[1].recs[1].id) = sanitize_path(qa[2].recs[1].id)
    /\ qa[1].recs[1].seq # qa[2].recs[1].seq

\* C20: get_queries, called without --dups on two files whose records have
\* the same safe id and different sequences, ends the run with status 65
\* and has written no file under queries/ for that safe id.
C20_DuplicateRejected ==
    (/\ ret.op = "get_queries"
     /\ ~run.args.dups
     /\ TwoFilesSameId(run.args.query))
        => /\ ret.status = "exit"
           /\ exitcode = 65
           /\ \A f \in querydir \ ret.before.data :
                 f.id # sanitize_path(run.args.query[1].recs[1].id)

\* the records of the query files of a call, in the order they are read
RECURSIVE AllRecs(_)
AllRecs(qa) == IF qa = <<>> THEN <<>> ELSE Head(qa).recs \o AllRecs(Tail(qa))

\* some record has the sequence of an earlier one under another safe id
SameSeqOtherId(qa) ==
    \E i, j \in 1..Len(AllRecs(qa)) :
        /\ i < j
        /\ AllRecs(qa)[i].seq = AllRecs(qa)[j].seq
        /\ sanitize_path(AllRecs(qa)[i].id) # sanitize_path(AllRecs(qa)[j].id)

\* C21: get_queries, given a record with the sequence of an earlier record
\* under another safe id, ends the run with status 65, be the two records in
\* one file or in two.
C21_SameSeqRejected ==
    (ret.op = "get_queries" /\ SameSeqOtherId(run.args.query))
        => ret.status = "exit" /\ exitcode = 65

\* two different paths of the list have one base name
DupBase(fasta) ==
    \E i, j \in 1..Len(fasta) :
        fasta[i] # fasta[j] /\ fasta[i].base = fasta[j].base

\* C22: an invocation given two genome paths with one base name has ended
\* with status 65 in validate_arguments, with config.json and the whole run
\* directory as they were before it.
C22_DupBaseRejected ==
    DupBase(run.args.paths)
        => /\ ret.op = "validate_arguments"
           /\ ret.status = "exit"
           /\ exitcode = 65
           /\ pc = "idle"
           /\ configf = ret.before.config
           /\ Disk = ret.before.disk

\* the duplicate is given to a run directory that an earlier invocation
\* has filled
C22_Witness ==
    /\ DupBase(run.args.paths)
    /\ ret.op = "validate_arguments"
    /\ configf.exists
    /\ labelsf.exists
    /\ expected_fastas.exists
    /\ \E b \in Bases : fastadir[b].exists

\* the list new is the list old with some of its files no longer there
Vanished(old, new) ==
    /\ Len(old) = Len(new)
    /\ \A i \in 1..Len(old) :
         /\ old[i].present
         /\ new[i].name = old[i].name
         /\ new[i].present => new[i] = old[i]
    /\ \E i \in 1..Len(new) : ~new[i].present

\* C23: when get_queries has returned for a list of query files and is
\* called again with the same list, some of the files no longer at their
\* paths, the call returns the query set of the call before and reports no
\* update; and a call whose first query file is neither at its path nor in
\* the backups ends with status 66 and leaves expected_queries.json as it
\* was.
C23_BackupSubstituted ==
    /\ (/\ ret.op = "get_queries"
        /\ prev.called
        /\ prev.status = "return"
        /\ prev.dups = run.args.dups
        /\ Vanished(prev.query, run.args.query))
           => /\ ret.status = "return"
              /\ ToSet(ret.value.new_queries)
                     = ToSet(prev.value.new_queries)
              /\ ~ret.value.updated
    /\ (/\ ret.op = "get_queries"
        /\ ~Head(run.args.query).present
        /\ QueryBase(Head(run.args.query).name) \notin DOMAIN prev.backupsdir)
           => /\ ret.status = "exit"
              /\ exitcode = 66
              /\ expected_queries = prev.expected_queries

BasesOf(paths) == {paths[i].base : i \in 1..Len(paths)}

\* the invocation before this one came through convert_fasta, and this one
\* is given the same base names with the same contents, a file of them at
\* another path
Moved ==
    /\ prev.converted
    /\ BasesOf(run.args.paths) = BasesOf(prev.paths)
    /\ \E i \in 1..Len(run.args.paths) :
         run.args.paths[i] \notin ToSet(prev.paths)
    /\ \A b \in BasesOf(run.args.paths) : run.args.seqOf[b] = prev.seqOf[b]

\* C24: when the genome files of an invocation have the base names and the
\* contents of those of the invocation before, one of them at a new path,
\* convert_fasta reports no update and leaves every renamed copy as it was;
\* and when every search of the invocation before had its output,
\* generate_blast_list dispatches no search and the search outputs and the
\* cached result table stay as they were.
C24_MovedNoChange ==
    /\ (ret.op = "convert_fasta" /\ Moved)
           => /\ ret.status = "return"
              /\ ~ret.value.updated
              /\ fastadir = prev.fastadir
    /\ (ret.op = "generate_blast_list" /\ Moved /\ prev.allok)
           => /\ ret.status = "return"
              /\ run.locals.cmds = {}
              /\ fastadir = prev.fastadir
              /\ blastdir = prev.blastdir
              /\ blast_results = prev.blast_results

\* the moved genome has come through generate_blast_list, the invocation
\* before having run every search
C24_Witness ==
    /\ ret.op = "generate_blast_list"
    /\ Moved
    /\ prev.allok
    /\ \E b \in Bases : fastadir[b].exists
    /\ \E k \in DOMAIN blastdir : blastdir[k].exists

\* no element is at two positions of the list
Injective(list) ==
    \A i, j \in 1..Len(list) : list[i] = list[j] => i = j

\* the base names of the call that labels.json did not hold, in their order
NotYetLabelled(before, bases) ==
    SelectSeq(bases, LAMBDA b : b \notin ToSet(ReadList(before)))

\* C25: when get_labels is called with pairwise distinct base names on a
\* labels list without repeats, the list it returns and persists is the
\* list before with the base names it did not hold appended in their order
\* (the first of them at the length of the list before), no base name is at
\* two positions of it, and a second call with the same base names returns
\* the same list and leaves labels.json as it is.
C25_IdempotentInjective ==
    (/\ ret.op = "get_labels"
     /\ Injective(run.args.fasta)
     /\ Injective(ReadList(ret.before)))
        => /\ ret.value = ReadList(ret.before)
                              \o NotYetLabelled(ret.before, run.args.fasta)
           /\ labelsf = File(ret.value)
           /\ Injective(labelsf.data)
           /\ get_labels(Disk, run.args.fasta).value = ret.value
           /\ get_labels(Disk, run.args.fasta).disk = Disk

\* a call with distinct base names, one labelled before and one new, on a
\* list that holds a base name the call does not give
C25_Witness ==
    /\ ret.op = "get_labels"
    /\ Injective(run.args.fasta)
    /\ ret.before.exists
    /\ Injective(ret.before.data)
    /\ \E b \in ToSet(run.args.fasta) : b \in ToSet(ret.before.data)
    /\ NotYetLabelled(ret.before, run.args.fasta) # <<>>
    /\ \E b \in ToSet(ret.before.data) : b \notin ToSet(run.args.fasta)

\* C26: the table read_blast_results returns is made of the rows that pass
\* the thresholds in the search outputs of the genomes and queries of the
\* run; and in a run whose genomes or queries are not those of the run
\* before, .autoMLSA/blast_results.tsv is not there when read_blast_results
\* looks for it.
C26_TableCurrent ==
    Returned("read_blast_results") =>
        /\ ret.value.rows = FilteredRows(Disk, run.locals.blastout)
        /\ (/\ prev.exists
            /\ \/ SetOf(prev.expected_fastas) # ToSet(run.locals.newfastas)
               \/ SetOf(prev.expected_queries) # ToSet(run.locals.queries))
               => ~ret.before.exists

\* the (query, target) pairs of the call, in the order of its output list
PairsOf(v) == [i \in 1..Len(v.pairs) |-> <<v.pairs[i].query, v.pairs[i].db>>]

\* C27: generate_blast_list returns one output path for each pair of an
\* extracted query and a renamed genome of the call, two pairs never have
\* one path, and the command of a pair is dispatched exactly when the file
\* at its path was absent or of size 0 before the call.
C27_OnePathPerPair ==
    (ret.op = "generate_blast_list" /\ ret.status = "return") =>
        LET v == ret.value
        IN /\ Len(v.blastout)
                  = Len(run.locals.queries) * Len(run.locals.newfastas)
           /\ \A q \in ToSet(run.locals.queries),
                 t \in ToSet(run.locals.newfastas) :
                  \E i \in 1..Len(v.pairs) :
                      /\ PairsOf(v)[i] = <<q, t>>
                      /\ v.blastout[i] = outpath(q, t)
           /\ \A i, j \in 1..Len(v.pairs) :
                  PairsOf(v)[i] # PairsOf(v)[j]
                      => v.blastout[i] # v.blastout[j]
           /\ \A i \in 1..Len(v.pairs) :
                  v.pairs[i].run
                      <=> \/ v.blastout[i] \notin DOMAIN ret.before
                          \/ ret.before[v.blastout[i]].empty

\* C28: a call of generate_blast_list with the stop asked for ends the run
\* with status 1 and does not come back to its caller, be there searches
\* left to run or none, and it does not write the marker of the stage.
C28_StopAlways ==
    (ret.op = "generate_blast_list" /\ ret.before.pb)
        => /\ ret.status # "return"
           /\ pc = "idle"
           /\ exitcode = 1
           /\ checkpoint = ret.marks

\* the cells of the presence matrix of a table, a genome and a query each,
\* the genomes of the matrix by name, and the number of the queries of the
\* matrix a genome has no row for
MatrixCells(blastres) ==
    (blastres.sseqid \cup {r.sseqid : r \in blastres.rows})
        \X (blastres.qseqid \cup {r.qseqid : r \in blastres.rows})

MatrixGenomes(blastres, labels) ==
    {labels[c[1] + 1] : c \in MatrixCells(blastres)}

ZeroHits(blastres, labels, g) ==
    Cardinality({q \in {c[2] : c \in MatrixCells(blastres)} :
                    ~\E r \in blastres.rows :
                        labels[r.sseqid + 1] = g /\ r.qseqid = q})

\* whether a genome is kept, given how many queries it has no hit for
KeptAsStated(zerohits, nallowed) == zerohits <= nallowed
KeptAsCoded(zerohits, nallowed) == zerohits = 0 \/ zerohits <= nallowed

\* what the claim says of a call of print_blast_summary beside the rule of
\* the keep set: no genome is kept twice, and when fewer genomes are kept
\* than the matrix has and missing_check is false the run ends with status 1
\* with only the summary files written
KeepSetOnceAndStop ==
    LET blastres == ret.before.blastres
        labels == run.locals.labels
        keeps == Keeps(blastres, labels, run.args.nallowed)
        genomes == MatrixGenomes(blastres, labels)
    IN /\ ToSet(keeps) \subseteq genomes
       /\ \A i, j \in 1..Len(keeps) : keeps[i] = keeps[j] => i = j
       /\ (Len(keeps) < Cardinality(genomes) /\ ~run.args.missing_check)
              => /\ ret.status # "return"
                 /\ exitcode = 1
                 /\ Disk = [ret.before.disk EXCEPT
                               !.tmpfiles = @ \cup summary_files]
       /\ ret.status = "return" => expected_filt = File(keeps)

\* C29 as stated: in print_blast_summary a genome of the presence matrix is
\* kept exactly when the queries it has no hit for are no more than
\* nallowed, no genome is kept twice, and when fewer genomes are kept than
\* the matrix has and missing_check is false the run ends with status 1 with
\* only the summary files written: expected_filt.json, the markers and every
\* file an invalidation would remove are as before the call.
C29_KeepSet ==
    ret.op = "print_blast_summary" =>
        /\ \A g \in MatrixGenomes(ret.before.blastres, run.locals.labels) :
             g \in ToSet(Keeps(ret.before.blastres, run.locals.labels,
                               run.args.nallowed))
                 <=> KeptAsStated(ZeroHits(ret.before.blastres,
                                           run.locals.labels, g),
                                  run.args.nallowed)
        /\ KeepSetOnceAndStop

\* C29 amended: a genome of the presence matrix is kept exactly when it has
\* a hit for every query or the queries it has no hit for are no more than
\* nallowed, so that with a negative nallowed the genomes with every query
\* are kept all the same; the rest as stated.
C29_KeepSetAmended ==
    ret.op = "print_blast_summary" =>
        /\ \A g \in MatrixGenomes(ret.before.blastres, run.locals.labels) :
             g \in ToSet(Keeps(ret.before.blastres, run.locals.labels,
                               run.args.nallowed))
                 <=> KeptAsCoded(ZeroHits(ret.before.blastres,
                                          run.locals.labels, g),
                                 run.args.nallowed)
        /\ KeepSetOnceAndStop

\* a call with a negative nallowed that keeps a genome with every query
\* and stops for a genome missing one, on a run directory where a call
\* before has kept another set of genomes and left its marker
C29_Witness ==
    /\ ret.op = "print_blast_summary"
    /\ ret.status # "return"
    /\ ~run.args.missing_check
    /\ run.args.nallowed < 0
    /\ Keeps(ret.before.blastres, run.locals.labels,
             run.args.nallowed) # <<>>
    /\ expected_filt.exists
    /\ "print_blast_summary" \in checkpoint
    /\ SetsDiffer(expected_filt.data,
                  Keeps(ret.before.blastres, run.locals.labels,
                        run.args.nallowed))
    /\ \E g \in MatrixGenomes(ret.before.blastres, run.locals.labels) :
         ZeroHits(ret.before.blastres, run.locals.labels, g) = 1

\* the genomes missing_by_genome.json lists: those of the matrix without a
\* hit for some query
MissingByGenome(blastres, labels) ==
    {g \in MatrixGenomes(blastres, labels) : ZeroHits(blastres, labels, g) > 0}

\* C30: every genome searched in the run has a row in the presence matrix
\* of print_blast_summary and is either kept or listed in
\* missing_by_genome.json, and a listed genome that is not kept ends the
\* run when missing_check is false; so it is for a genome none of whose
\* hits passes the thresholds.
C30_NoSilentDrop ==
    ret.op = "print_blast_summary" =>
        LET blastres == ret.before.blastres
            labels == run.locals.labels
            keeps == Keeps(blastres, labels, run.args.nallowed)
        IN \A g \in ToSet(run.args.fasta) :
               /\ g \in MatrixGenomes(blastres, labels)
               /\ \/ g \in ToSet(keeps)
                  \/ /\ g \in MissingByGenome(blastres, labels)
                     /\ ~run.args.missing_check => ret.status # "return"

=============================================================================
